---- MODULE Spec2Model ----
(***************************************************************************)
(* DevWorkspaceClient of the che dashboard: the workspace status           *)
(* subscription (subscribeToNamespace / subscribe), the three channel      *)
(* listeners, the status reconciliation (createStatusUpdate), the          *)
(* websocket failure bookkeeping, and the requests to the cluster          *)
(* (changeWorkspaceStatus, getWorkspaceByName, update).                    *)
(***************************************************************************)
EXTENDS Integers, Sequences, FiniteSets, TLC

VARIABLES
    subscriber,          \* this.subscriber: a Subscriber or Undefined
    connectRequested,    \* websocketClient.connect() has been called
    failingWebSockets,   \* this._failingWebSockets: string[]
    tasks,               \* the subscribe() invocations, in the order they were started,
                         \* each with the SUBSCRIBE requests it handed to the websocket
    listeners,           \* the websocket client's listeners, per channel
    previousItems,       \* this.previousItems: Map<namespace, Map<id, IStatusUpdate>>
    lastDevWorkspaceLog, \* this.lastDevWorkspaceLog: Map<id, string>
    out,                 \* what the last handler did: its event, the callback calls, the alerts
    lastStatus,          \* per namespace and id: the status of the last StatusUpdate handed out
    events,              \* number of inbound messages handled, in the runs that bound it
    subscribeFailed,     \* a subscribe() rejected and its error alert was shown
    webSocketEventEmitter, \* the callbacks registered for this.webSocketEventName, in order
    snapshot,            \* the array a caller got from the failingWebSockets getter
    stopped,             \* the ids stopped by changeWorkspaceStatus with no message arrived since,
                         \* each with the last message recorded for it when it was stopped
    received,            \* the valid events delivered, in the runs that record them
    invoked,             \* the callback calls made for them, in the runs that record them
    getByName,           \* the getWorkspaceByName() invocation
    updating,            \* the update() invocation
    applied,             \* a function of the dashboard applied: its arguments, its result
    fetchResourcesPromise, \* CreatingStepFetchResources.fetchResourcesPromise (static)
    steps,               \* the CreatingStepFetchResources instances: props and state
    running,             \* the runStep() invocations, in the order they were started
    requested,           \* the requestResources() calls, in the order they were made
    devWorkspaceResources \* the source URLs with resources in the store

vars == << subscriber, connectRequested, failingWebSockets, tasks, listeners,
           previousItems, lastDevWorkspaceLog, out, lastStatus, events, subscribeFailed,
           webSocketEventEmitter, snapshot, stopped, received, invoked, getByName, updating,
           applied, fetchResourcesPromise, steps, running, requested, devWorkspaceResources >>

(* The functions applied and the fetch-resources step of the dashboard *)
frontend == << applied, fetchResourcesPromise, steps, running, requested,
               devWorkspaceResources >>

(* The DevWorkspaceClient, its callers and its websocket *)
client == << subscriber, connectRequested, failingWebSockets, tasks, listeners,
             previousItems, lastDevWorkspaceLog, out, lastStatus, events, subscribeFailed,
             webSocketEventEmitter, snapshot, stopped, received, invoked, getByName, updating >>

(* What the subscription and the websocket callbacks leave alone *)
apart == << webSocketEventEmitter, snapshot, stopped, received, invoked, getByName, updating, frontend >>

-----------------------------------------------------------------------------
(* Bounds of the model *)

MaxOpens == 2       \* subscribe() passes started over a run
MaxFailing == 2     \* length of the failing-context list
MaxEvents == 3      \* inbound messages handled over a run
MaxCallbacks == 2   \* callbacks registered for the failure notifications

(* The JavaScript value undefined (an absent field, an unset member). *)
Undefined == "undefined"

Subscribers == {"S1", "S2"}
Contexts == {"c1", "c2"}
Namespaces == {"ns1", "ns2"}
WorkspaceIds == {"w1", "w2"}

(* Subscriber.namespace of each subscriber *)
SubscriberNamespace(s) == IF s = "S1" THEN "ns1" ELSE "ns2"

(* What callbacks.getResourceVersion() of each subscriber resolves to: the first *)
(* has no resource version yet, the second has one.                              *)
SubscriberResourceVersion(s) == IF s = "S1" THEN Undefined ELSE "rv1"

STARTING == "STARTING"
RUNNING == "RUNNING"
FAILED == "FAILED"

onModified == "onModified"
onAdded == "onAdded"
onDeleted == "onDeleted"
Channels == {onModified, onAdded, onDeleted}

(* subscribe() with the added channel handled first *)
SubscribeOrder_AddedFirst == << onAdded, onModified, onDeleted >>

(* The order in which subscribe() handles the channels. *)
SubscribeOrder == << onModified, onAdded, onDeleted >>

-----------------------------------------------------------------------------
(* Inbound payloads.  A payload is a devworkspace object, a string or some *)
(* other value; all are records of one shape so that they can be compared. *)

DevWorkspace(ns, id, phase, message) ==
    [type |-> "devworkspace", namespace |-> ns, id |-> id, phase |-> phase, message |-> message]

StringPayload(id) ==
    [type |-> "string", namespace |-> Undefined, id |-> id, phase |-> Undefined, message |-> Undefined]

OtherPayload ==
    [type |-> "other", namespace |-> Undefined, id |-> Undefined, phase |-> Undefined, message |-> Undefined]

isDevWorkspace(p) == p.type = "devworkspace"

IsString(p) == p.type = "string"

getId(dw) == dw.id

(* The status objects of the devworkspaces: <<phase, message>>.  A devworkspace *)
(* that is starting has no phase; a message may be absent, empty or a text.     *)
Statuses ==
    { << Undefined, Undefined >>, << RUNNING, "" >>, << RUNNING, "m1" >>, << RUNNING, "m2" >>,
      << FAILED, "m1" >> }

(* The devworkspace objects: any namespace and id, any of the status objects. *)
DevWorkspaces ==
    { DevWorkspace(ns, id, st[1], st[2]) :
        ns \in Namespaces, id \in WorkspaceIds, st \in Statuses }

(* One payload of each kind *)
SamplePayloads == { DevWorkspace("ns1", "w1", RUNNING, "m1"), StringPayload("w1"), OtherPayload }

-----------------------------------------------------------------------------
(* The devworkspace objects the cluster answers a request with.  The status and  *)
(* the annotations are optional objects; an absent one has present = FALSE.      *)

Status(phase, mainUrl, message) ==
    [present |-> TRUE, phase |-> phase, mainUrl |-> mainUrl, message |-> message]

NoStatus == [present |-> FALSE, phase |-> Undefined, mainUrl |-> Undefined, message |-> Undefined]

(* metadata.annotations with the value of DEVWORKSPACE_NEXT_START_ANNOTATION *)
Annotations(nextStart) == [present |-> TRUE, nextStart |-> nextStart]

NoAnnotations == [present |-> FALSE, nextStart |-> Undefined]

Workspace(id, status, annotations, spec) ==
    [id |-> id, status |-> status, annotations |-> annotations, spec |-> spec]

NoWorkspace ==
    Workspace(Undefined, NoStatus, NoAnnotations, [hasComponents |-> FALSE, components |-> << >>])

(* getStatus(devworkspace) of workspace-adapter/helper: the phase of the status *)
getStatus(dw) == IF dw.status.present THEN dw.status.phase ELSE Undefined

UnknownError == "Unknown error occured when trying to process the devworkspace"

(* checkForDevWorkspaceError that throws the message only *)
checkForDevWorkspaceError_NoFallback(dw) ==
    IF getStatus(dw) # Undefined /\ getStatus(dw) = FAILED
    THEN dw.status.message
    ELSE Undefined

(* checkForDevWorkspaceError(devworkspace): the message of the error it throws, *)
(* Undefined when it returns.                                                   *)
checkForDevWorkspaceError(dw) ==
    IF getStatus(dw) # Undefined /\ getStatus(dw) = FAILED
    THEN IF dw.status.message # Undefined /\ dw.status.message # ""
         THEN dw.status.message
         ELSE UnknownError
    ELSE Undefined

(* What patchWorkspace answers changeWorkspaceStatus with: either workspace, *)
(* running, or failed with and without a message.                            *)
ChangedWorkspaces ==
    { Workspace(id, st, NoAnnotations, [hasComponents |-> FALSE, components |-> << >>]) :
        id \in WorkspaceIds,
        st \in { Status(RUNNING, "url1", Undefined), Status(FAILED, Undefined, "e1"),
                 Status(FAILED, Undefined, "") } }

-----------------------------------------------------------------------------
(* JavaScript Map: a function whose domain is the set of keys present. *)

EmptyMap == [k \in {} |-> Undefined]

MapHas(m, key) == key \in DOMAIN m

MapGet(m, key) == IF key \in DOMAIN m THEN m[key] ELSE Undefined

MapSet(m, key, value) == [k \in (DOMAIN m) \cup {key} |-> IF k = key THEN value ELSE m[k]]

MapDelete(m, key) == [k \in (DOMAIN m) \ {key} |-> m[k]]

(* IStatusUpdate; an absent optional field is Undefined. *)
StatusUpdate(id, status, prevStatus, message) ==
    [workspaceId |-> id, status |-> status, prevStatus |-> prevStatus, message |-> message]

(* The status createStatusUpdate derives from a devworkspace: its phase when that *)
(* is a string, STARTING otherwise.                                               *)
StatusOf(dw) == IF dw.phase # Undefined THEN dw.phase ELSE STARTING

(* prevStatus?.status of the entry found in the namespace's map *)
PrevStatusOf(prevWorkspace, workspaceId) ==
    IF MapHas(prevWorkspace, workspaceId) THEN prevWorkspace[workspaceId].status ELSE Undefined

(* createStatusUpdate that never finds the namespace's map and takes every update *)
(* for the first one.                                                             *)
createStatusUpdate_AlwaysFirst(items, dw) ==
    LET newStatus == StatusUpdate(getId(dw), StatusOf(dw), StatusOf(dw), Undefined)
    IN  [update |-> newStatus,
         items |-> MapSet(items, dw.namespace, MapSet(EmptyMap, getId(dw), newStatus))]

(* createStatusUpdate(devworkspace): the update it returns and the cache it leaves. *)
createStatusUpdate(items, dw) ==
    LET namespace == dw.namespace
        workspaceId == getId(dw)
        status == StatusOf(dw)
    IN  IF MapHas(items, namespace)
        THEN LET prevWorkspace == items[namespace]
                 newUpdate == StatusUpdate(workspaceId, status,
                                           PrevStatusOf(prevWorkspace, workspaceId), Undefined)
             IN  [update |-> newUpdate,
                  items |-> MapSet(items, namespace, MapSet(prevWorkspace, workspaceId, newUpdate))]
        ELSE LET newStatus == StatusUpdate(workspaceId, status, status, Undefined)
             IN  [update |-> newStatus,
                  items |-> MapSet(items, namespace, MapSet(EmptyMap, workspaceId, newStatus))]

-----------------------------------------------------------------------------
(* The channel listeners subscribe() registers.  A listener works on the    *)
(* client's caches and appends to the calls and alerts of the running       *)
(* handler: env = [items, log, calls, alerts].                              *)

Call(cb, fn, arg) == [subscriber |-> cb, fn |-> fn, arg |-> arg]

Alert(key, variant) == [key |-> key, variant |-> variant]

(* `${channel}-websocket-channel` *)
ChannelKey(channel) ==
    CASE channel = onModified -> "onModified-websocket-channel"
      [] channel = onAdded -> "onAdded-websocket-channel"
      [] channel = onDeleted -> "onDeleted-websocket-channel"

ChannelAlert(channel) == Alert(ChannelKey(channel), "warning")

(* The message check without the comparison with the last message *)
ForwardsMessage_Always(log, workspaceId, statusMessage) ==
    statusMessage # Undefined /\ statusMessage # ""

(* A message is forwarded when it is truthy and differs from the last one recorded. *)
ForwardsMessage(log, workspaceId, statusMessage) ==
    /\ statusMessage # Undefined
    /\ statusMessage # ""
    /\ MapGet(log, workspaceId) # statusMessage

(* The modified listener without the return that skips what is no devworkspace *)
OnModifiedListener_NoReturn(cb, payload, env) ==
    LET created == createStatusUpdate(env.items, payload)
    IN  [items |-> created.items,
         log |-> env.log,
         calls |-> Append(env.calls, Call(cb, "updateDevWorkspaceStatus", created.update)),
         alerts |-> IF isDevWorkspace(payload) THEN env.alerts
                    ELSE Append(env.alerts, ChannelAlert(onModified))]

OnModifiedListener(cb, payload, env) ==
    IF ~isDevWorkspace(payload)
    THEN [env EXCEPT !.alerts = Append(@, ChannelAlert(onModified))]
    ELSE LET created == createStatusUpdate(env.items, payload)
             workspaceId == getId(payload)
             forwards == ForwardsMessage(env.log, workspaceId, payload.message)
             statusUpdate == IF forwards
                             THEN [created.update EXCEPT !.message = payload.message]
                             ELSE created.update
         IN  [items |-> \* the update returned is the object stored in the map
                        MapSet(created.items, payload.namespace,
                               MapSet(created.items[payload.namespace], workspaceId, statusUpdate)),
              log |-> IF forwards THEN MapSet(env.log, workspaceId, payload.message) ELSE env.log,
              calls |-> Append(env.calls, Call(cb, "updateDevWorkspaceStatus", statusUpdate)),
              alerts |-> env.alerts]

(* The added listener that reports the workspace's status as well *)
OnAddedListener_AlsoStatus(cb, payload, env) ==
    IF ~isDevWorkspace(payload)
    THEN [env EXCEPT !.alerts = Append(@, ChannelAlert(onAdded))]
    ELSE [env EXCEPT !.calls =
              Append(Append(@, Call(cb, "updateAddedDevWorkspaces", << payload >>)),
                     Call(cb, "updateDevWorkspaceStatus",
                          StatusUpdate(getId(payload), StatusOf(payload), Undefined, Undefined)))]

OnAddedListener(cb, payload, env) ==
    IF ~isDevWorkspace(payload)
    THEN [env EXCEPT !.alerts = Append(@, ChannelAlert(onAdded))]
    ELSE [env EXCEPT !.calls = Append(@, Call(cb, "updateAddedDevWorkspaces", << payload >>))]

(* The deleted listener that keeps every second id to itself *)
OnDeletedListener_SkipsSecond(cb, payload, env) ==
    IF ~IsString(payload)
    THEN [env EXCEPT !.alerts = Append(@, ChannelAlert(onDeleted))]
    ELSE IF payload.id = "w2"
         THEN env
         ELSE [env EXCEPT !.calls = Append(@, Call(cb, "updateDeletedDevWorkspaces", << payload.id >>))]

(* The deleted listener without the return that skips what is no string *)
OnDeletedListener_NoReturn(cb, payload, env) ==
    [env EXCEPT !.alerts = IF IsString(payload) THEN @ ELSE Append(@, ChannelAlert(onDeleted)),
                !.calls = Append(@, Call(cb, "updateDeletedDevWorkspaces", << payload.id >>))]

OnDeletedListener(cb, payload, env) ==
    IF ~IsString(payload)
    THEN [env EXCEPT !.alerts = Append(@, ChannelAlert(onDeleted))]
    ELSE [env EXCEPT !.calls = Append(@, Call(cb, "updateDeletedDevWorkspaces", << payload.id >>))]

(* A registered listener: the closure's code (by channel), the callbacks it captured *)
(* and the subscribe() invocation that created it.                                  *)
Listener(channel, cb, task) == [channel |-> channel, callbacks |-> cb, task |-> task]

RunListener(l, payload, env) ==
    CASE l.channel = onModified -> OnModifiedListener(l.callbacks, payload, env)
      [] l.channel = onAdded -> OnAddedListener(l.callbacks, payload, env)
      [] l.channel = onDeleted -> OnDeletedListener(l.callbacks, payload, env)

-----------------------------------------------------------------------------
(* The websocket client (dashboard-backend-client/websocketClient): it keeps *)
(* the listeners of each channel and hands an inbound message to them.       *)

(* addListener that keeps the listeners added before *)
AddListener_Appends(ls, channel, l) == [ls EXCEPT ![channel] = Append(@, l)]

(* addListener(channel, listener): the channel's listener is the one added last. *)
AddListener(ls, channel, l) == [ls EXCEPT ![channel] = << l >>]

RECURSIVE CallListeners(_, _, _)
CallListeners(ls, payload, env) ==
    IF ls = << >> THEN env
    ELSE CallListeners(Tail(ls), payload, RunListener(Head(ls), payload, env))

-----------------------------------------------------------------------------
(* What a handler leaves in out. *)
(* For an event, before is the status of the last StatusUpdate handed out for the  *)
(* event's workspace and logBefore the last message recorded for its id, both as   *)
(* they were when the event arrived; for an open, wasFailing tells that the        *)
(* context was found in the failing list.  afterStop tells that the event's        *)
(* workspace was stopped with no message forwarded since, cleared being the last   *)
(* message recorded for it when it was stopped.  For a close, code and             *)
(* reason are the CloseEvent's; for a request, workspace is what the cluster       *)
(* answered, started the flag passed and thrown the message of the error thrown.   *)
(* For removeWebSocketFailedListener, removed are the callbacks it found           *)
(* registered and wasFailing tells that the failing list had items.                *)
Outcome(op, context, channel, payload, calls, alerts) ==
    [op |-> op, context |-> context, channel |-> channel, payload |-> payload,
     calls |-> calls, alerts |-> alerts, before |-> Undefined, logBefore |-> Undefined,
     wasFailing |-> FALSE, afterStop |-> FALSE, cleared |-> Undefined, code |-> 0, reason |-> "",
     workspace |-> NoWorkspace, started |-> FALSE, thrown |-> Undefined, removed |-> << >>]

(* A subscribe() invocation: the namespace and callbacks it destructured from the *)
(* subscriber, and how far it got.  pc = 2k: awaiting getSubscribeMessage of the  *)
(* (k+1)-th channel; pc = 2k+1: awaiting websocketClient.subscribe of it; pc = 6: *)
(* resolved.  sent are the SUBSCRIBE requests it handed to the websocket, and     *)
(* afterFailure tells that the open that started it ended a failure.              *)
Task(s, afterFailure) ==
    [callbacks |-> s, namespace |-> SubscriberNamespace(s), pc |-> 0, sent |-> << >>,
     afterFailure |-> afterFailure]

SubscribeMessage(channel, namespace, resourceVersion) ==
    [request |-> "SUBSCRIBE", channel |-> channel,
     params |-> [namespace |-> namespace, resourceVersion |-> resourceVersion]]

DonePc == 2 * Len(SubscribeOrder)

(* No array handed to a caller yet.  An array handed out is either the client's   *)
(* own array (shared) or an array of its own with the items it holds.             *)
NoArray == [held |-> FALSE, shared |-> FALSE, items |-> << >>]

(* No getWorkspaceByName() called yet.  An invocation has the workspace fetched *)
(* last, the count of the loop (attempted), the number of fetches answered, and  *)
(* once it threw the error's message and what it threw for.                      *)
NoRequest ==
    [pc |-> "idle", caller |-> Undefined, workspace |-> NoWorkspace, attempted |-> 0,
     fetches |-> 0, thrown |-> Undefined, cause |-> Undefined]

(* No update() called yet.  An invocation has the workspace with the plugins *)
(* injected, the patch built so far and the workspace found on the cluster.  *)
NoUpdate == [pc |-> "idle", workspace |-> NoWorkspace, patch |-> << >>, onCluster |-> NoWorkspace]

InitClient ==
    /\ subscriber = Undefined
    /\ connectRequested = FALSE
    /\ failingWebSockets = << >>
    /\ tasks = << >>
    /\ listeners = [c \in Channels |-> << >>]
    /\ previousItems = EmptyMap
    /\ lastDevWorkspaceLog = EmptyMap
    /\ out = Outcome("constructor", Undefined, Undefined, OtherPayload, << >>, << >>)
    /\ lastStatus = [k \in Namespaces \X WorkspaceIds |-> Undefined]
    /\ events = 0
    /\ subscribeFailed = FALSE
    /\ webSocketEventEmitter = << >>
    /\ snapshot = NoArray
    /\ stopped = EmptyMap
    /\ received = << >>
    /\ invoked = << >>
    /\ getByName = NoRequest
    /\ updating = NoUpdate

(* No function applied yet *)
NoCall == [fn |-> Undefined]

(* No step constructed.  The static promise is Promise.resolve(): promise 0, *)
(* fulfilled; promise n is the one the n-th requestResources() call returned. *)
InitSteps ==
    /\ steps = EmptyMap
    /\ fetchResourcesPromise = 0
    /\ running = << >>
    /\ requested = << >>
    /\ devWorkspaceResources = {}

Init ==
    /\ InitClient
    /\ applied = NoCall
    /\ InitSteps

(* subscribeToNamespace(subscriber) *)
SubscribeToNamespace(s) ==
    /\ subscriber' = s
    /\ connectRequested' = TRUE
    /\ out' = Outcome("subscribeToNamespace", Undefined, Undefined, OtherPayload, << >>, << >>)
    /\ UNCHANGED << failingWebSockets, tasks, listeners, previousItems, lastDevWorkspaceLog,
                    lastStatus, events, subscribeFailed, apart >>

(* webSocketEventEmitter.emit(webSocketEventName): the callbacks registered are *)
(* called in the order of their registration.                                  *)
Emit(registered) ==
    [k \in 1..Len(registered) |-> Call(Undefined, "websocketClose", registered[k])]

(* onDidWebSocketFailing(websocketContext) *)
WebSocketFailing(c) ==
    /\ Len(failingWebSockets) < MaxFailing
    /\ failingWebSockets' = Append(failingWebSockets, c)
    /\ out' = Outcome("onDidWebSocketFailing", c, Undefined, OtherPayload,
                      Emit(webSocketEventEmitter), << >>)
    /\ UNCHANGED << subscriber, connectRequested, tasks, listeners, previousItems,
                    lastDevWorkspaceLog, lastStatus, events, subscribeFailed, apart >>

(* Array.indexOf: the first position of x in the array, 0 when it is absent *)
IndexOf(arr, x) ==
    IF \E i \in 1..Len(arr) : arr[i] = x
    THEN CHOOSE i \in 1..Len(arr) : arr[i] = x /\ \A j \in 1..(i - 1) : arr[j] # x
    ELSE 0

(* Array.splice(index, 1) *)
Splice(arr, index) == [i \in 1..(Len(arr) - 1) |-> IF i < index THEN arr[i] ELSE arr[i + 1]]

RemoveFailing(arr, c) == IF IndexOf(arr, c) # 0 THEN Splice(arr, IndexOf(arr, c)) ELSE arr

(* The emit of onDidWebSocketOpen: only when the context was in the failing list *)
EmitIfFound(arr, c, registered) == IF IndexOf(arr, c) # 0 THEN Emit(registered) ELSE << >>

(* onDidWebSocketOpen with a subscribe() that does not look at the subscriber *)
WebSocketOpen_NoSubscriberCheck(c) ==
    /\ Len(tasks) < MaxOpens
    /\ failingWebSockets' = RemoveFailing(failingWebSockets, c)
    /\ out' = Outcome("onDidWebSocketOpen", c, Undefined, OtherPayload,
                      EmitIfFound(failingWebSockets, c, webSocketEventEmitter), << >>)
    /\ tasks' = Append(tasks, Task(subscriber, IndexOf(failingWebSockets, c) # 0))
    /\ UNCHANGED << subscriber, connectRequested, listeners, previousItems,
                    lastDevWorkspaceLog, lastStatus, events, subscribeFailed, apart >>

(* onDidWebSocketOpen(websocketContext): the context leaves the failing list and   *)
(* subscribe() starts; without a subscriber it throws and the catch shows an alert. *)
WebSocketOpen(c) ==
    /\ subscriber # Undefined => Len(tasks) < MaxOpens
    /\ failingWebSockets' = RemoveFailing(failingWebSockets, c)
    /\ IF subscriber = Undefined
       THEN /\ out' = [Outcome("onDidWebSocketOpen", c, Undefined, OtherPayload,
                               EmitIfFound(failingWebSockets, c, webSocketEventEmitter),
                               << Alert("websocket-subscribe-error", "danger") >>)
                          EXCEPT !.wasFailing = IndexOf(failingWebSockets, c) # 0]
            /\ subscribeFailed' = TRUE
            /\ UNCHANGED tasks
       ELSE /\ out' = [Outcome("onDidWebSocketOpen", c, Undefined, OtherPayload,
                               EmitIfFound(failingWebSockets, c, webSocketEventEmitter), << >>)
                          EXCEPT !.wasFailing = IndexOf(failingWebSockets, c) # 0]
            /\ tasks' = Append(tasks, Task(subscriber, IndexOf(failingWebSockets, c) # 0))
            /\ UNCHANGED subscribeFailed
    /\ UNCHANGED << subscriber, connectRequested, listeners, previousItems,
                    lastDevWorkspaceLog, lastStatus, events, apart >>

(* subscribe() of task i resumes after getSubscribeMessage(channel): the resource *)
(* version has arrived and the SUBSCRIBE request goes to the websocket.           *)
SendSubscribe(i) ==
    /\ i \in 1..Len(tasks)
    /\ tasks[i].pc < DonePc
    /\ tasks[i].pc % 2 = 0
    /\ LET channel == SubscribeOrder[(tasks[i].pc \div 2) + 1]
           message == SubscribeMessage(channel, tasks[i].namespace,
                                       SubscriberResourceVersion(tasks[i].callbacks))
       IN  tasks' = [tasks EXCEPT ![i].pc = @ + 1, ![i].sent = Append(@, message)]
    /\ out' = Outcome("subscribe", Undefined, Undefined, OtherPayload, << >>, << >>)
    /\ UNCHANGED << subscriber, connectRequested, failingWebSockets, listeners, previousItems,
                    lastDevWorkspaceLog, lastStatus, events, subscribeFailed, apart >>

(* subscribe() of task i resumes after websocketClient.subscribe(message): the *)
(* channel's listener is added, and the next channel's message is asked for.   *)
RegisterListener(i) ==
    /\ i \in 1..Len(tasks)
    /\ tasks[i].pc < DonePc
    /\ tasks[i].pc % 2 = 1
    /\ LET channel == SubscribeOrder[(tasks[i].pc \div 2) + 1]
       IN  listeners' = AddListener(listeners, channel, Listener(channel, tasks[i].callbacks, i))
    /\ tasks' = [tasks EXCEPT ![i].pc = @ + 1]
    /\ out' = Outcome("addListener", Undefined, Undefined, OtherPayload, << >>, << >>)
    /\ UNCHANGED << subscriber, connectRequested, failingWebSockets, previousItems,
                    lastDevWorkspaceLog, lastStatus, events, subscribeFailed, apart >>

(* The statuses of the calls of updateDevWorkspaceStatus among calls *)
StatusCalls(calls) == SelectSeq(calls, LAMBDA c : c.fn = "updateDevWorkspaceStatus")

(* An inbound message on a channel: the websocket client calls the channel's listeners. *)
Deliver(channel, payload) ==
    /\ listeners[channel] # << >>
    /\ LET env == CallListeners(listeners[channel], payload,
                                [items |-> previousItems, log |-> lastDevWorkspaceLog,
                                 calls |-> << >>, alerts |-> << >>])
       IN  /\ previousItems' = env.items
           /\ lastDevWorkspaceLog' = env.log
           /\ out' = [Outcome("event", Undefined, channel, payload, env.calls, env.alerts)
                         EXCEPT !.before = IF isDevWorkspace(payload)
                                           THEN lastStatus[<< payload.namespace, getId(payload) >>]
                                           ELSE Undefined,
                                !.logBefore = IF isDevWorkspace(payload)
                                              THEN MapGet(lastDevWorkspaceLog, getId(payload))
                                              ELSE Undefined,
                                !.afterStop = isDevWorkspace(payload)
                                              /\ MapHas(stopped, getId(payload)),
                                !.cleared = IF isDevWorkspace(payload)
                                            THEN MapGet(stopped, getId(payload))
                                            ELSE Undefined]
           /\ lastStatus' =
                  IF isDevWorkspace(payload) /\ StatusCalls(env.calls) # << >>
                  THEN [lastStatus EXCEPT ![<< payload.namespace, getId(payload) >>] =
                            StatusCalls(env.calls)[Len(StatusCalls(env.calls))].arg.status]
                  ELSE lastStatus
           /\ stopped' = IF channel = onModified /\ isDevWorkspace(payload)
                              /\ payload.message # Undefined /\ payload.message # ""
                         THEN MapDelete(stopped, getId(payload))
                         ELSE stopped
    /\ UNCHANGED << subscriber, connectRequested, failingWebSockets, tasks, listeners,
                    subscribeFailed, webSocketEventEmitter, snapshot, getByName, updating, frontend >>

-----------------------------------------------------------------------------
(* The close notification of the transport *)

(* The close code that is never reported *)
InternalErrorCode == 1011

CloseCodes == {1000, 1006, InternalErrorCode}

CloseReasons == {"", "r1"}

(* { key: `websocket-close-code-${event.code}`, variant: warning,            *)
(*   title: 'Failed to establish WebSocket to server: ' + event.reason }     *)
CloseAlert(code, reason) ==
    [key |-> << "websocket-close-code-", code >>, variant |-> "warning",
     title |-> << "Failed to establish WebSocket to server: ", reason >>]

(* What onDidWebSocketClose shows: the alert, or nothing when it only logs *)
CloseAlerts(code, reason) ==
    IF code # InternalErrorCode /\ reason # "" THEN << CloseAlert(code, reason) >> ELSE << >>

(* onDidWebSocketClose that looks at the reason only *)
WebSocketClose_AnyCode(code, reason) ==
    /\ out' = [Outcome("onDidWebSocketClose", Undefined, Undefined, OtherPayload, << >>,
                       IF reason # "" THEN << CloseAlert(code, reason) >> ELSE << >>)
                  EXCEPT !.code = code, !.reason = reason]
    /\ UNCHANGED << subscriber, connectRequested, failingWebSockets, tasks, listeners,
                    previousItems, lastDevWorkspaceLog, lastStatus, events, subscribeFailed,
                    apart >>

(* onDidWebSocketClose(event) *)
WebSocketClose(code, reason) ==
    /\ out' = [Outcome("onDidWebSocketClose", Undefined, Undefined, OtherPayload, << >>,
                       CloseAlerts(code, reason))
                  EXCEPT !.code = code, !.reason = reason]
    /\ UNCHANGED << subscriber, connectRequested, failingWebSockets, tasks, listeners,
                    previousItems, lastDevWorkspaceLog, lastStatus, events, subscribeFailed,
                    apart >>

-----------------------------------------------------------------------------
(* The listeners of the failure notifications and the failing list's getter *)

(* The callbacks a caller registers *)
FailedCallbacks == {"f1", "f2"}

(* onWebSocketFailed(callback) *)
OnWebSocketFailed(f) ==
    /\ Len(webSocketEventEmitter) < MaxCallbacks
    /\ webSocketEventEmitter' = Append(webSocketEventEmitter, f)
    /\ out' = Outcome("onWebSocketFailed", f, Undefined, OtherPayload, << >>, << >>)
    /\ UNCHANGED << subscriber, connectRequested, failingWebSockets, tasks, listeners,
                    previousItems, lastDevWorkspaceLog, lastStatus, events, subscribeFailed,
                    snapshot, stopped, received, invoked, getByName, updating, frontend >>

(* removeWebSocketFailedListener that leaves the failing list alone *)
RemoveWebSocketFailedListener_KeepsFailing ==
    /\ webSocketEventEmitter' = << >>
    /\ out' = [Outcome("removeWebSocketFailedListener", Undefined, Undefined, OtherPayload,
                       << >>, << >>)
                  EXCEPT !.removed = webSocketEventEmitter,
                         !.wasFailing = failingWebSockets # << >>]
    /\ UNCHANGED << subscriber, connectRequested, failingWebSockets, tasks, listeners,
                    previousItems, lastDevWorkspaceLog, lastStatus, events, subscribeFailed,
                    snapshot, stopped, received, invoked, getByName, updating, frontend >>

(* removeWebSocketFailedListener(): removeAllListeners, and the array's length set to 0 *)
RemoveWebSocketFailedListener ==
    /\ webSocketEventEmitter' = << >>
    /\ failingWebSockets' = << >>
    /\ out' = [Outcome("removeWebSocketFailedListener", Undefined, Undefined, OtherPayload,
                       << >>, << >>)
                  EXCEPT !.removed = webSocketEventEmitter,
                         !.wasFailing = failingWebSockets # << >>]
    /\ UNCHANGED << subscriber, connectRequested, tasks, listeners,
                    previousItems, lastDevWorkspaceLog, lastStatus, events, subscribeFailed,
                    snapshot, stopped, received, invoked, getByName, updating, frontend >>

(* A getter that hands out the client's own array *)
ArrayFrom_SameArray(arr) == [held |-> TRUE, shared |-> TRUE, items |-> << >>]

(* Array.from(arr): a new array with the items of arr *)
ArrayFrom(arr) == [held |-> TRUE, shared |-> FALSE, items |-> arr]

(* The items of an array handed out *)
Items(a) == IF a.shared THEN failingWebSockets ELSE a.items

(* get failingWebSockets() *)
ReadFailingWebSockets ==
    /\ snapshot' = ArrayFrom(failingWebSockets)
    /\ out' = Outcome("failingWebSockets", Undefined, Undefined, OtherPayload, << >>, << >>)
    /\ UNCHANGED << subscriber, connectRequested, failingWebSockets, tasks, listeners,
                    previousItems, lastDevWorkspaceLog, lastStatus, events, subscribeFailed,
                    webSocketEventEmitter, stopped, received, invoked, getByName, updating, frontend >>

(* The caller pushes x to the array it got from the getter. *)
CallerPush(x) ==
    /\ snapshot.held
    /\ Len(Items(snapshot)) <= MaxFailing
    /\ IF snapshot.shared
       THEN failingWebSockets' = Append(failingWebSockets, x) /\ UNCHANGED snapshot
       ELSE snapshot' = [snapshot EXCEPT !.items = Append(@, x)] /\ UNCHANGED failingWebSockets
    /\ out' = Outcome("callerPush", x, Undefined, OtherPayload, << >>, << >>)
    /\ UNCHANGED << subscriber, connectRequested, tasks, listeners,
                    previousItems, lastDevWorkspaceLog, lastStatus, events, subscribeFailed,
                    webSocketEventEmitter, stopped, received, invoked, getByName, updating, frontend >>

-----------------------------------------------------------------------------
(* changeWorkspaceStatus(namespace, name, started), once patchWorkspace has  *)
(* answered with changedWorkspace; a patch that is rejected changes nothing. *)

(* The record of the stops: a stop of an id notes the last message recorded for it. *)
Stop(stops, log, workspaceId, started) ==
    IF started \/ MapHas(stops, workspaceId)
    THEN stops
    ELSE MapSet(stops, workspaceId, MapGet(log, workspaceId))

(* changeWorkspaceStatus that leaves the last messages alone *)
ChangeWorkspaceStatus_KeepsLog(changedWorkspace, started) ==
    /\ stopped' = Stop(stopped, lastDevWorkspaceLog, getId(changedWorkspace), started)
    /\ out' = [Outcome("changeWorkspaceStatus", Undefined, Undefined, OtherPayload, << >>, << >>)
                  EXCEPT !.workspace = changedWorkspace, !.started = started,
                         !.logBefore = MapGet(lastDevWorkspaceLog, getId(changedWorkspace)),
                         !.thrown = checkForDevWorkspaceError(changedWorkspace)]
    /\ UNCHANGED << subscriber, connectRequested, failingWebSockets, tasks, listeners,
                    previousItems, lastDevWorkspaceLog, lastStatus, events, subscribeFailed,
                    webSocketEventEmitter, snapshot, received, invoked, getByName, updating, frontend >>

(* changeWorkspaceStatus that also forgets the workspace's last status *)
ChangeWorkspaceStatus_ForgetsStatus(changedWorkspace, started) ==
    /\ lastDevWorkspaceLog' = IF ~started
                              THEN MapDelete(lastDevWorkspaceLog, getId(changedWorkspace))
                              ELSE lastDevWorkspaceLog
    /\ previousItems' = [ns \in DOMAIN previousItems |->
                            MapDelete(previousItems[ns], getId(changedWorkspace))]
    /\ stopped' = Stop(stopped, lastDevWorkspaceLog, getId(changedWorkspace), started)
    /\ out' = [Outcome("changeWorkspaceStatus", Undefined, Undefined, OtherPayload, << >>, << >>)
                  EXCEPT !.workspace = changedWorkspace, !.started = started,
                         !.logBefore = MapGet(lastDevWorkspaceLog, getId(changedWorkspace)),
                         !.thrown = checkForDevWorkspaceError(changedWorkspace)]
    /\ UNCHANGED << subscriber, connectRequested, failingWebSockets, tasks, listeners,
                    lastStatus, events, subscribeFailed,
                    webSocketEventEmitter, snapshot, received, invoked, getByName, updating, frontend >>

ChangeWorkspaceStatus(changedWorkspace, started) ==
    /\ lastDevWorkspaceLog' = IF ~started
                              THEN MapDelete(lastDevWorkspaceLog, getId(changedWorkspace))
                              ELSE lastDevWorkspaceLog
    /\ stopped' = Stop(stopped, lastDevWorkspaceLog, getId(changedWorkspace), started)
    /\ out' = [Outcome("changeWorkspaceStatus", Undefined, Undefined, OtherPayload, << >>, << >>)
                  EXCEPT !.workspace = changedWorkspace, !.started = started,
                         !.logBefore = MapGet(lastDevWorkspaceLog, getId(changedWorkspace)),
                         !.thrown = checkForDevWorkspaceError(changedWorkspace)]
    /\ UNCHANGED << subscriber, connectRequested, failingWebSockets, tasks, listeners,
                    previousItems, lastStatus, events, subscribeFailed,
                    webSocketEventEmitter, snapshot, received, invoked, getByName, updating, frontend >>

-----------------------------------------------------------------------------
(* getWorkspaceByName(namespace, workspaceName): the first fetch, then the loop *)
(* that fetches again, checks, counts and delays.                               *)

maxStatusAttempts == 10

(* A value that an if takes for false: undefined or the empty string *)
Falsy(v) == v = Undefined \/ v = ""

(* !workspace.status || !workspace.status.phase || !workspace.status.mainUrl *)
Incomplete(w) ==
    \/ ~w.status.present
    \/ Falsy(w.status.phase)
    \/ Falsy(w.status.mainUrl)

StatusError == "Could not retrieve devworkspace status information"

MainUrlError == "Could not retrieve mainUrl for the running workspace"

RequestError == "request failed"

Thrown(r, message, cause) == [r EXCEPT !.pc = "thrown", !.thrown = message, !.cause = cause]

(* What follows the loop without the check of the mainUrl *)
Settle_NoMainUrlCheck(r) ==
    LET w == r.workspace
    IN  IF checkForDevWorkspaceError(w) # Undefined
        THEN Thrown(r, checkForDevWorkspaceError(w), "failed")
        ELSE IF ~w.status.present \/ Falsy(w.status.phase)
        THEN Thrown(r, StatusError, "status")
        ELSE [r EXCEPT !.pc = "returned"]

(* What follows the loop: the check for a failed workspace and the two checks *)
(* of the status.                                                             *)
Settle(r) ==
    LET w == r.workspace
    IN  IF checkForDevWorkspaceError(w) # Undefined
        THEN Thrown(r, checkForDevWorkspaceError(w), "failed")
        ELSE IF ~w.status.present \/ Falsy(w.status.phase)
        THEN Thrown(r, StatusError, "status")
        ELSE IF w.status.phase = RUNNING /\ Falsy(w.status.mainUrl)
        THEN Thrown(r, MainUrlError, "mainUrl")
        ELSE [r EXCEPT !.pc = "returned"]

(* The test of the while loop: into the body, where the fetch is awaited, or on *)
LoopTest(r) ==
    IF Incomplete(r.workspace) /\ r.attempted < maxStatusAttempts
    THEN [r EXCEPT !.pc = "refetch"]
    ELSE Settle(r)

GetByNameDone == getByName.pc \in {"idle", "returned", "thrown"}

(* The call, by a caller of the client or by update() *)
StartGetByName(caller) == [NoRequest EXCEPT !.pc = "first", !.caller = caller]

GetWorkspaceByName ==
    /\ GetByNameDone
    /\ updating.pc # "fetching"
    /\ getByName' = StartGetByName("caller")
    /\ UNCHANGED << subscriber, connectRequested, failingWebSockets, tasks, listeners,
                    previousItems, lastDevWorkspaceLog, out, lastStatus, events,
                    subscribeFailed, webSocketEventEmitter, snapshot, stopped, received,
                    invoked, updating, frontend >>

(* The first fetch is answered with w. *)
FirstFetched(w) ==
    /\ getByName.pc = "first"
    /\ getByName' = LoopTest([getByName EXCEPT !.workspace = w, !.fetches = 1])
    /\ UNCHANGED << subscriber, connectRequested, failingWebSockets, tasks, listeners,
                    previousItems, lastDevWorkspaceLog, out, lastStatus, events,
                    subscribeFailed, webSocketEventEmitter, snapshot, stopped, received,
                    invoked, updating, frontend >>

(* The fetch of the loop is answered with w: the check, the count, and the delay starts. *)
Refetched(w) ==
    /\ getByName.pc = "refetch"
    /\ LET r == [getByName EXCEPT !.workspace = w, !.fetches = @ + 1]
       IN  getByName' = IF checkForDevWorkspaceError(w) # Undefined
                        THEN Thrown(r, checkForDevWorkspaceError(w), "failed")
                        ELSE [r EXCEPT !.attempted = @ + 1, !.pc = "delay"]
    /\ UNCHANGED << subscriber, connectRequested, failingWebSockets, tasks, listeners,
                    previousItems, lastDevWorkspaceLog, out, lastStatus, events,
                    subscribeFailed, webSocketEventEmitter, snapshot, stopped, received,
                    invoked, updating, frontend >>

(* The delay is over. *)
Delayed ==
    /\ getByName.pc = "delay"
    /\ getByName' = LoopTest(getByName)
    /\ UNCHANGED << subscriber, connectRequested, failingWebSockets, tasks, listeners,
                    previousItems, lastDevWorkspaceLog, out, lastStatus, events,
                    subscribeFailed, webSocketEventEmitter, snapshot, stopped, received,
                    invoked, updating, frontend >>

(* A fetch is rejected: the rejection is what getWorkspaceByName throws. *)
FetchRejected ==
    /\ getByName.pc \in {"first", "refetch"}
    /\ getByName' = Thrown(getByName, RequestError, "rejected")
    /\ UNCHANGED << subscriber, connectRequested, failingWebSockets, tasks, listeners,
                    previousItems, lastDevWorkspaceLog, out, lastStatus, events,
                    subscribeFailed, webSocketEventEmitter, snapshot, stopped, received,
                    invoked, updating, frontend >>

(* The statuses the cluster answers a fetch with *)
FetchedStatuses ==
    { NoStatus, Status(Undefined, Undefined, Undefined), Status(STARTING, Undefined, Undefined),
      Status(RUNNING, Undefined, Undefined), Status(RUNNING, "url1", Undefined),
      Status(FAILED, Undefined, "e1"), Status(FAILED, Undefined, ""),
      Status(FAILED, "url1", "e1") }

(* The annotations of a workspace: none, none for the next start, an empty and *)
(* a non-empty value for it                                                   *)
AnnotationChoices == { NoAnnotations, Annotations(Undefined), Annotations(""), Annotations("cfg1") }

NoSpec == [hasComponents |-> FALSE, components |-> << >>]

Fetched == { Workspace("w1", st, NoAnnotations, NoSpec) : st \in FetchedStatuses }

FetchedAnnotated ==
    { Workspace("w1", st, a, NoSpec) :
        st \in { Status(STARTING, Undefined, Undefined), Status(RUNNING, "url1", Undefined),
                 Status(FAILED, Undefined, "e1") },
        a \in AnnotationChoices }

-----------------------------------------------------------------------------
(* update(workspace, plugins) *)

Plugin(name) == [hasMetadata |-> TRUE, name |-> name]

NoMetadataPlugin == [hasMetadata |-> FALSE, name |-> Undefined]

(* pluginName.replaceAll(' ', '-').toLowerCase() *)
Dashed(name) ==
    CASE name = "My Plugin" -> "my-plugin"
      [] name = "p1" -> "p1"

(* normalizePluginName: `${dashed}-${workspaceId}` *)
normalizePluginName(pluginName, workspaceId) == << Dashed(pluginName), "-", workspaceId >>

(* addPlugin(workspace, pluginName, namespace) *)
addPlugin(w, pluginName) ==
    [w EXCEPT !.spec = [hasComponents |-> TRUE,
                        components |-> Append(w.spec.components, pluginName)]]

RECURSIVE InjectPlugins(_, _)
InjectPlugins(w, plugins) ==
    IF plugins = << >> THEN w
    ELSE IF ~Head(plugins).hasMetadata
    THEN InjectPlugins(w, Tail(plugins))
    ELSE InjectPlugins(addPlugin(w, normalizePluginName(Head(plugins).name, getId(w))),
                       Tail(plugins))

(* annotations && annotations[DEVWORKSPACE_NEXT_START_ANNOTATION] *)
HasNextStart(w) == w.annotations.present /\ ~Falsy(w.annotations.nextStart)

PatchOp(op, path, value) == [op |-> op, path |-> path, value |-> value]

AddAnnotation(w) ==
    PatchOp("add", "/metadata/annotations", [nextStart |-> w.annotations.nextStart])

ReplaceSpec(w) == PatchOp("replace", "/spec", w.spec)

(* DEVWORKSPACE_NEXT_START_ANNOTATION with its slash escaped *)
RemoveAnnotation ==
    PatchOp("remove", "/metadata/annotations/che.eclipse.org~1next-start-cfg", Undefined)

(* A removal pushed whatever the cluster has *)
Removal_Always(onCluster) == << RemoveAnnotation >>

(* What is pushed to the patch for the workspace found on the cluster *)
Removal(onCluster) == IF HasNextStart(onCluster) THEN << RemoveAnnotation >> ELSE << >>

(* The workspaces passed to update() and the plugin lists *)
UpdatedWorkspaces == { Workspace("w1", NoStatus, a, NoSpec) : a \in AnnotationChoices }

PluginLists == { << >>, << NoMetadataPlugin >>, << Plugin("My Plugin"), Plugin("p1") >> }

(* The call: the plugins are injected; with the annotation the patch goes out, *)
(* without it getWorkspaceByName is awaited.                                   *)
Update(workspace, plugins) ==
    /\ updating.pc # "fetching"
    /\ GetByNameDone
    /\ LET w == InjectPlugins(workspace, plugins)
       IN  IF HasNextStart(w)
           THEN /\ updating' = [pc |-> "patched", workspace |-> w,
                                patch |-> << AddAnnotation(w) >>, onCluster |-> NoWorkspace]
                /\ UNCHANGED getByName
           ELSE /\ updating' = [pc |-> "fetching", workspace |-> w,
                                patch |-> << ReplaceSpec(w) >>, onCluster |-> NoWorkspace]
                /\ getByName' = StartGetByName("update")
    /\ UNCHANGED << subscriber, connectRequested, failingWebSockets, tasks, listeners,
                    previousItems, lastDevWorkspaceLog, out, lastStatus, events,
                    subscribeFailed, webSocketEventEmitter, snapshot, stopped, received,
                    invoked, frontend >>

(* getWorkspaceByName has settled: what it threw is what update() throws, and *)
(* with the workspace it returned the patch is completed and goes out.       *)
UpdateResumed ==
    /\ updating.pc = "fetching"
    /\ getByName.pc \in {"returned", "thrown"}
    /\ updating' = IF getByName.pc = "thrown"
                   THEN [updating EXCEPT !.pc = "rejected"]
                   ELSE [updating EXCEPT !.pc = "patched",
                                         !.onCluster = getByName.workspace,
                                         !.patch = @ \o Removal(getByName.workspace)]
    /\ UNCHANGED << subscriber, connectRequested, failingWebSockets, tasks, listeners,
                    previousItems, lastDevWorkspaceLog, out, lastStatus, events,
                    subscribeFailed, webSocketEventEmitter, snapshot, stopped, received,
                    invoked, getByName, frontend >>

-----------------------------------------------------------------------------
(* The steps of the subscribe() invocations in flight *)
SubscribeProgress ==
    \/ \E i \in 1..MaxOpens : SendSubscribe(i)
    \/ \E i \in 1..MaxOpens : RegisterListener(i)

(* The client in use with one subscriber: a transport that opens, and opens again, *)
(* once connect() was called, and messages on every channel.                      *)
Next ==
    \/ SubscribeToNamespace("S1")
    \/ connectRequested /\ WebSocketOpen("c1")
    \/ SubscribeProgress
    \/ \E ch \in Channels, p \in SamplePayloads : Deliver(ch, p) /\ UNCHANGED << events, received, invoked >>

Spec == Init /\ [][Next]_vars

(* The transport and the subscribe() passes alone, no message arriving.  The *)
(* promises a pass awaits settle: every pass in flight goes on.              *)
NextResubscribe ==
    \/ SubscribeToNamespace("S1")
    \/ connectRequested /\ failingWebSockets = << >> /\ WebSocketFailing("c1")
    \/ connectRequested /\ WebSocketOpen("c1")
    \/ SubscribeProgress

SpecResubscribe ==
    /\ Init
    /\ [][NextResubscribe]_vars
    /\ \A i \in 1..MaxOpens : WF_vars(SendSubscribe(i) \/ RegisterListener(i))

(* The same with a subscriber that is replaced. *)
NextReplace ==
    \/ \E s \in Subscribers : SubscribeToNamespace(s)
    \/ connectRequested /\ WebSocketOpen("c1")
    \/ SubscribeProgress
    \/ \E ch \in Channels, p \in SamplePayloads : Deliver(ch, p) /\ UNCHANGED << events, received, invoked >>

SpecReplace == Init /\ [][NextReplace]_vars

(* The websocket callbacks called the way their interface allows: at any time, *)
(* for any context, also before a subscriber is set.                           *)
NextCallbacks ==
    \/ SubscribeToNamespace("S1")
    \/ \E c \in Contexts : WebSocketFailing(c)
    \/ \E c \in Contexts : WebSocketOpen(c)
    \/ SubscribeProgress

SpecCallbacks == Init /\ [][NextCallbacks]_vars

(* The reconciliation of the modified events: one subscriber, one subscribe() *)
(* pass, and every devworkspace payload.                                      *)
NextStatus ==
    \/ SubscribeToNamespace("S1")
    \/ connectRequested /\ tasks = << >> /\ WebSocketOpen("c1")
    \/ SubscribeProgress
    \/ /\ events < MaxEvents
       /\ events' = events + 1
       /\ UNCHANGED << received, invoked >>
       /\ \/ \E p \in DevWorkspaces \cup {OtherPayload} : Deliver(onModified, p)
          \/ Deliver(onAdded, DevWorkspace("ns1", "w1", RUNNING, "m1"))
          \/ Deliver(onDeleted, StringPayload("w1"))

SpecStatus == Init /\ [][NextStatus]_vars

(* The payloads of two workspaces of one namespace, one with a message, and one *)
(* payload of each other kind.                                                 *)
OpsPayloads ==
    { DevWorkspace("ns1", "w1", RUNNING, "m1"), DevWorkspace("ns1", "w2", FAILED, "m1"),
      StringPayload("w1"), OtherPayload }

(* Every operation that works on the client's fields: one subscriber, one       *)
(* subscribe() pass, the transport's notifications, messages on every channel   *)
(* and the workspaces started and stopped.                                      *)
NextOps ==
    \/ SubscribeToNamespace("S1")
    \/ connectRequested /\ failingWebSockets = << >> /\ WebSocketFailing("c1")
    \/ connectRequested /\ tasks = << >> /\ WebSocketOpen("c1")
    \/ connectRequested /\ \E code \in CloseCodes, reason \in CloseReasons :
                               WebSocketClose(code, reason)
    \/ SubscribeProgress
    \/ \E ch \in Channels, p \in OpsPayloads :
           Deliver(ch, p) /\ UNCHANGED << events, received, invoked >>
    \/ \E w \in ChangedWorkspaces, started \in BOOLEAN : ChangeWorkspaceStatus(w, started)

SpecOps == Init /\ [][NextOps]_vars

(* The listeners of the failure notifications: callbacks registered and removed, *)
(* a transport that fails and re-opens once the pass before has resolved, and    *)
(* the messages of one workspace.                                                *)
NextListeners ==
    \/ SubscribeToNamespace("S1")
    \/ connectRequested /\ WebSocketFailing("c1")
    \/ /\ connectRequested
       /\ \A i \in 1..Len(tasks) : tasks[i].pc = DonePc
       /\ WebSocketOpen("c1")
    \/ SubscribeProgress
    \/ \E f \in FailedCallbacks : OnWebSocketFailed(f)
    \/ RemoveWebSocketFailedListener
    \/ Deliver(onModified, DevWorkspace("ns1", "w1", RUNNING, "m1"))
           /\ UNCHANGED << events, received, invoked >>

SpecListeners == Init /\ [][NextListeners]_vars

(* The payloads of two workspaces, the ids of both, and a payload of no kind *)
OrderPayloads ==
    { DevWorkspace("ns1", "w1", RUNNING, "m1"), DevWorkspace("ns1", "w2", Undefined, Undefined),
      StringPayload("w1"), StringPayload("w2"), OtherPayload }

(* The payload is what the channel's listener accepts. *)
Accepted(channel, payload) ==
    IF channel = onDeleted THEN IsString(payload) ELSE isDevWorkspace(payload)

(* A message on a channel, noted with the calls its handling made *)
DeliverRecorded(channel, payload) ==
    /\ Deliver(channel, payload)
    /\ received' = IF Accepted(channel, payload)
                   THEN Append(received, [channel |-> channel, payload |-> payload])
                   ELSE received
    /\ invoked' = invoked \o out'.calls

(* One subscriber and one subscribe() pass, and up to MaxEvents messages on the *)
(* channels that have their listener, each noted in the order of its arrival.   *)
NextOrder ==
    \/ SubscribeToNamespace("S1") /\ subscriber = Undefined
    \/ connectRequested /\ tasks = << >> /\ WebSocketOpen("c1")
    \/ SubscribeProgress
    \/ /\ events < MaxEvents
       /\ events' = events + 1
       /\ \E ch \in Channels, p \in OrderPayloads : DeliverRecorded(ch, p)

SpecOrder == Init /\ [][NextOrder]_vars

(* The requests to the cluster: getWorkspaceByName called by a caller and by *)
(* update(), the cluster answering every fetch with any workspace or with a  *)
(* rejection.  The promises awaited settle: an invocation in flight goes on. *)
RequestStep ==
    \/ \E w \in Fetched \cup FetchedAnnotated : FirstFetched(w)
    \/ \E w \in Fetched \cup FetchedAnnotated : Refetched(w)
    \/ Delayed
    \/ FetchRejected
    \/ UpdateResumed

NextRequests ==
    \/ GetWorkspaceByName
    \/ \E w \in UpdatedWorkspaces, plugins \in PluginLists : Update(w, plugins)
    \/ RequestStep

SpecRequests == Init /\ [][NextRequests]_vars /\ WF_vars(RequestStep)

(* A failed workspace on every path: the events of the subscription, the *)
(* workspaces started and stopped, and getWorkspaceByName.               *)
NextFailed ==
    \/ SubscribeToNamespace("S1") /\ subscriber = Undefined
    \/ connectRequested /\ tasks = << >> /\ WebSocketOpen("c1")
    \/ SubscribeProgress
    \/ \E p \in { DevWorkspace("ns1", "w1", FAILED, "m1"), DevWorkspace("ns1", "w1", FAILED, "") } :
           Deliver(onModified, p) /\ UNCHANGED << events, received, invoked >>
    \/ \E w \in { c \in ChangedWorkspaces : getId(c) = "w1" }, started \in BOOLEAN :
           ChangeWorkspaceStatus(w, started)
    \/ GetWorkspaceByName
    \/ \E w \in Fetched : FirstFetched(w)
    \/ \E w \in Fetched : Refetched(w)
    \/ Delayed
    \/ FetchRejected

SpecFailed == Init /\ [][NextFailed]_vars

(* The failing list read by a caller that then writes to the array it got, *)
(* while contexts fail and re-open.                                        *)
NextSnapshot ==
    \/ SubscribeToNamespace("S1")
    \/ connectRequested /\ \E c \in Contexts : WebSocketFailing(c)
    \/ connectRequested /\ \E c \in Contexts : WebSocketOpen(c)
    \/ RemoveWebSocketFailedListener
    \/ ReadFailingWebSockets
    \/ CallerPush("x")

SpecSnapshot == Init /\ [][NextSnapshot]_vars

-----------------------------------------------------------------------------
(* normalizeDevfileV2 (store/FactoryResolver/normalizeDevfileV2.ts) *)

(* A JavaScript object is the function from its own keys to their values; *)
(* {} is EmptyMap, and a key that is absent reads as Undefined.           *)
HasOwn(object, key) == key \in DOMAIN object

(* Object.assign(target, source): the keys of the source replace those of the target *)
ObjectAssign(target, source) ==
    [k \in (DOMAIN target) \cup (DOMAIN source) |->
        IF k \in DOMAIN source THEN source[k] ELSE target[k]]

DEVWORKSPACE_DEVFILE_SOURCE == "che.eclipse.org/devfile-source"

DEVWORKSPACE_METADATA_ANNOTATION == "dw.metadata.annotations"

(* A YAML text is the sequence of its lines, each an indentation, a key and a *)
(* scalar ("" on the line that opens a mapping); '' is the text of no line.   *)
EmptyText == << >>

(* safeDump({[key]: {...entries}}): the line of the key, then one line for *)
(* each entry, in the order the object literal lists them.                 *)
safeDump(key, entries) ==
    << << 0, key, "" >> >> \o [k \in 1..Len(entries) |-> << 1, entries[k][1], entries[k][2] >>]

(* getProjectName(url): a name made from the URL *)
getProjectName(url) == "project of " \o url

(* The test without || devfile.components.length === 0 *)
NoComponents_OnlyAbsent(devfile) == ~HasOwn(devfile, "components")

(* !devfile.components || devfile.components.length === 0 *)
NoComponents(devfile) ==
    ~HasOwn(devfile, "components") \/ Len(devfile.components) = 0

(* if (...) devfile.components = defaultComponents *)
withDefaultComponents(devfile, defaultComponents) ==
    IF NoComponents(devfile)
    THEN ObjectAssign(devfile, [components |-> defaultComponents])
    ELSE devfile

(* The callback of components.map: a component whose one key is a name that *)
(* is not empty gets volume = {}.                                           *)
withVolume(component) ==
    IF Cardinality(DOMAIN component) = 1 /\ HasOwn(component, "name") /\ ~Falsy(component.name)
    THEN ObjectAssign(component, [volume |-> EmptyMap])
    ELSE component

(* devfile = Object.assign(devfile, { components }) *)
withVolumes(devfile) ==
    ObjectAssign(devfile,
        [components |-> [k \in 1..Len(devfile.components) |-> withVolume(devfile.components[k])]])

(* The project made from scm_info: checkoutFrom only with a branch *)
defaultProject(scmInfo) ==
    LET origin   == scmInfo.clone_url
        revision == MapGet(scmInfo, "branch")
        git      == [remotes |-> [origin |-> origin]]
    IN  [name |-> getProjectName(origin),
         git  |-> IF ~Falsy(revision)
                  THEN ObjectAssign(git, [checkoutFrom |-> [revision |-> revision]])
                  ELSE git]

(* !devfile.projects?.length *)
NoProjects(devfile) ==
    ~HasOwn(devfile, "projects") \/ Len(devfile.projects) = 0

(* if (!devfile.projects?.length && scmInfo) { ...                        *)
(*     devfile = Object.assign({ projects }, devfile) }: the keys of the  *)
(* devfile are copied over { projects }.                                  *)
withDefaultProject(devfile, data) ==
    IF NoProjects(devfile) /\ HasOwn(data, "scm_info")
    THEN ObjectAssign([projects |-> << defaultProject(data.scm_info) >>], devfile)
    ELSE devfile

(* The text that always names the revision *)
devfileSource_AlwaysRevision(data, location) ==
    IF ~Falsy(MapGet(data, "source")) /\ HasOwn(data, "scm_info")
    THEN safeDump("scm", << << "repo", data.scm_info.clone_url >>,
                            << "revision", MapGet(data.scm_info, "branch") >>,
                            << "fileName", data.source >> >>)
    ELSE IF ~Falsy(location)
    THEN safeDump("url", << << "location", location >> >>)
    ELSE EmptyText

(* let devfileSource = ''; if (data.source && scmInfo) ... else if (location) ... *)
devfileSource(data, location) ==
    IF ~Falsy(MapGet(data, "source")) /\ HasOwn(data, "scm_info")
    THEN IF ~Falsy(MapGet(data.scm_info, "branch"))
         THEN safeDump("scm", << << "repo", data.scm_info.clone_url >>,
                                 << "revision", data.scm_info.branch >>,
                                 << "fileName", data.source >> >>)
         ELSE safeDump("scm", << << "repo", data.scm_info.clone_url >>,
                                 << "fileName", data.source >> >>)
    ELSE IF ~Falsy(location)
    THEN safeDump("url", << << "location", location >> >>)
    ELSE EmptyText

(* The metadata: the annotation of the source written into the attributes, *)
(* and a generateName for a devfile with no name of either kind.           *)
withMetadata(devfile, data, location) ==
    LET metadata    == IF HasOwn(devfile, "metadata") THEN devfile.metadata ELSE EmptyMap
        attributes  == IF HasOwn(metadata, "attributes") THEN metadata.attributes ELSE EmptyMap
        annotations == IF HasOwn(attributes, DEVWORKSPACE_METADATA_ANNOTATION)
                       THEN attributes[DEVWORKSPACE_METADATA_ANNOTATION]
                       ELSE EmptyMap
        annotated   == MapSet(annotations, DEVWORKSPACE_DEVFILE_SOURCE,
                              devfileSource(data, location))
        attributed  == MapSet(metadata, "attributes",
                              MapSet(attributes, DEVWORKSPACE_METADATA_ANNOTATION, annotated))
        cloneUrl    == IF HasOwn(data, "scm_info")
                       THEN MapGet(data.scm_info, "clone_url")
                       ELSE Undefined
        named       == IF Falsy(MapGet(attributed, "name"))
                          /\ Falsy(MapGet(attributed, "generateName"))
                       THEN MapSet(attributed, "generateName",
                                   getProjectName(IF ~Falsy(cloneUrl) THEN cloneUrl ELSE location))
                       ELSE attributed
    IN  ObjectAssign(devfile, [metadata |-> named])

normalizeDevfileV2(devfile, data, location, defaultComponents) ==
    withMetadata(
        withDefaultProject(
            withVolumes(withDefaultComponents(devfile, defaultComponents)),
            data),
        data, location)

(* The devfiles, resolver data, locations and default components it is applied to *)
CloneUrl == "https://git.host/org/repo.git"

Location == "https://git.host/org/repo/raw/devfile.yaml"

ComponentLists ==
    { << >>,
      << [name |-> "c1"] >>,
      << [name |-> ""] >>,
      << [container |-> "image"] >>,
      << [name |-> "c1", container |-> "image"] >>,
      << [name |-> "c1"], [name |-> "c2", container |-> "image"] >> }

ProjectLists ==
    { << >>, << [name |-> "p1", git |-> [remotes |-> [origin |-> "https://git.host/org/p1.git"]]] >> }

OtherAttribute == "other.attribute" :> "kept"

Annotated ==
    DEVWORKSPACE_METADATA_ANNOTATION :>
        (DEVWORKSPACE_DEVFILE_SOURCE :> safeDump("url", << << "location", "https://old" >> >>)
         @@ "che.eclipse.org/other" :> "kept")

Metadatas ==
    { EmptyMap,
      [name |-> "n1"],
      [name |-> ""],
      [generateName |-> "g1"],
      [name |-> "n1", attributes |-> OtherAttribute],
      [attributes |-> Annotated @@ OtherAttribute] }

Devfiles ==
    { ObjectAssign(ObjectAssign(ObjectAssign([schemaVersion |-> "2.2.0"], c), q), m) :
        c \in {EmptyMap} \cup {[components |-> l] : l \in ComponentLists},
        q \in {EmptyMap} \cup {[projects |-> l] : l \in ProjectLists},
        m \in {EmptyMap} \cup {[metadata |-> l] : l \in Metadatas} }

ScmInfos == { [clone_url |-> CloneUrl], [clone_url |-> CloneUrl, branch |-> "b1"] }

ResolverData ==
    { ObjectAssign(i, f) :
        i \in {EmptyMap} \cup {[scm_info |-> x] : x \in ScmInfos},
        f \in {EmptyMap, [source |-> "devfile.yaml"]} }

Locations == { "", Location }

DefaultComponents ==
    { << >>, << [name |-> "d1"] >>, << [name |-> "d1", container |-> "image"] >> }

NormalizeCalls ==
    { [fn |-> "normalizeDevfileV2", pc |-> "called", devfile |-> d, data |-> x,
       location |-> l, defaultComponents |-> c, result |-> EmptyMap] :
        d \in Devfiles, x \in ResolverData, l \in Locations, c \in DefaultComponents }

(* normalizeDevfileV2 called with one of them *)
InitNormalize ==
    /\ InitClient
    /\ applied \in NormalizeCalls
    /\ InitSteps

(* ... and returning *)
NormalizeDevfileV2 ==
    /\ applied.fn = "normalizeDevfileV2"
    /\ applied.pc = "called"
    /\ applied' = [applied EXCEPT !.pc = "returned",
                                  !.result = normalizeDevfileV2(applied.devfile, applied.data,
                                                 applied.location, applied.defaultComponents)]
    /\ UNCHANGED << client, fetchResourcesPromise, steps, running, requested,
                    devWorkspaceResources >>

NextNormalize == NormalizeDevfileV2

SpecNormalize == InitNormalize /\ [][NextNormalize]_vars

-----------------------------------------------------------------------------
(* sortKeys (services/helpers/editor.ts) *)

sortOrder ==
    << "apiVersion", "schemaVersion", "metadata", "attributes", "projects", "components",
       "commands" >>

(* array.indexOf(key): the first index of the key, counted from 0, or -1 *)
indexOf(array, key) ==
    IF \E k \in 1..Len(array) : array[k] = key
    THEN (CHOOSE k \in 1..Len(array) : array[k] = key /\ \A j \in 1..(k - 1) : array[j] # key) - 1
    ELSE -1

(* sortKeys without its answer for a first key that is not listed *)
sortKeys_UnlistedFirst(key1, key2) ==
    LET index1 == indexOf(sortOrder, key1)
        index2 == indexOf(sortOrder, key2)
    IN  IF index1 = -1 /\ index2 = -1 THEN 0
        ELSE IF index2 = -1 THEN -1
        ELSE IF index1 < index2 THEN -1
        ELSE IF index1 > index2 THEN 1
        ELSE 0

sortKeys(key1, key2) ==
    LET index1 == indexOf(sortOrder, key1)
        index2 == indexOf(sortOrder, key2)
    IN  IF index1 = -1 /\ index2 = -1 THEN 0
        ELSE IF index1 = -1 THEN 1
        ELSE IF index2 = -1 THEN -1
        ELSE IF index1 < index2 THEN -1
        ELSE IF index1 > index2 THEN 1
        ELSE 0

(* The keys compared: those of sortOrder and two more *)
Keys == { sortOrder[k] : k \in 1..Len(sortOrder) } \cup { "name", "events" }

SortCalls ==
    { [fn |-> "sortKeys", pc |-> "called", keys |-> << a, b, c >>, result |-> EmptyMap] :
        a \in Keys, b \in Keys, c \in Keys }

(* Three keys to compare with each other *)
InitSortKeys ==
    /\ InitClient
    /\ applied \in SortCalls
    /\ InitSteps

(* sortKeys called with every pair of the three, as a sort does: result[i][j] *)
(* is what sortKeys(keys[i], keys[j]) returned.                               *)
SortKeys ==
    /\ applied.fn = "sortKeys"
    /\ applied.pc = "called"
    /\ applied' = [applied EXCEPT !.pc = "returned",
                                  !.result = [i \in 1..3 |-> [j \in 1..3 |->
                                                 sortKeys(applied.keys[i], applied.keys[j])]]]
    /\ UNCHANGED << client, fetchResourcesPromise, steps, running, requested,
                    devWorkspaceResources >>

NextSortKeys == SortKeys

SpecSortKeys == InitSortKeys /\ [][NextSortKeys]_vars

-----------------------------------------------------------------------------
(* CreatingStepFetchResources (WorkspaceProgress/CreatingSteps/Fetch/Resources) *)

(* The runStep() invocations followed *)
MaxRuns == 3

Instances == { "step1", "step2" }

SourceUrls == { "u1", "u2" }

(* The state of a promise: the one of Promise.resolve(), or of a request *)
PromiseState(promise) ==
    IF promise = 0 THEN "fulfilled" ELSE requested[promise].state

(* A runStep() whose awaited promise has settled is to be resumed: its *)
(* continuation is a microtask, and runs before any further task.     *)
Resumable ==
    \E r \in 1..Len(running) :
        /\ running[r].pc \in {"awaiting", "fetching"}
        /\ PromiseState(running[r].awaited) # "pending"

(* constructor(props): the step of a factory URL, at a distance from the *)
(* active step, with no error, about to be mounted.  due is the lifecycle *)
(* callback React owes the component; retry says that "Click to try      *)
(* again" was used after a request had rejected.                         *)
Constructor(i, sourceUrl, distance) ==
    /\ ~Resumable
    /\ ~MapHas(steps, i)
    /\ steps' = MapSet(steps, i, [sourceUrl |-> sourceUrl, distance |-> distance,
                                  shouldResolve |-> TRUE, lastError |-> Undefined,
                                  due |-> "mount", retry |-> FALSE])
    /\ UNCHANGED << client, applied, fetchResourcesPromise, running, requested,
                    devWorkspaceResources >>

(* this.handleError(e): the error becomes state.lastError and shows as an   *)
(* alert; the change of lastError has the component updated               *)
(* (shouldComponentUpdate).                                                *)
handleError(component, e) ==
    [component EXCEPT !.lastError = e,
                      !.due = IF component.due = "mount" THEN "mount" ELSE "update"]

(* init(): nothing for a step that is not the active one or has an error, *)
(* else prepareAndRun(), which calls runStep(): the invocation awaits the *)
(* promise the static field holds now.                                    *)
init(i) ==
    /\ IF steps[i].distance # 0 \/ steps[i].lastError # Undefined
       THEN /\ steps' = [steps EXCEPT ![i].due = "none"]
            /\ UNCHANGED running
       ELSE /\ Len(running) < MaxRuns
            /\ running' = Append(running,
                   [step |-> i, pc |-> "awaiting", awaited |-> fetchResourcesPromise,
                    resources |-> {}, issued |-> 0, retry |-> steps[i].retry,
                    result |-> Undefined])
            /\ steps' = [steps EXCEPT ![i].due = "none", ![i].retry = FALSE]
    /\ UNCHANGED << client, applied, fetchResourcesPromise, requested, devWorkspaceResources >>

(* componentDidMount() *)
ComponentDidMount(i) ==
    /\ MapHas(steps, i)
    /\ steps[i].due = "mount"
    /\ init(i)

(* componentDidUpdate() *)
ComponentDidUpdate(i) ==
    /\ MapHas(steps, i)
    /\ steps[i].due = "update"
    /\ init(i)

(* handleRestart(alertKey), the callback of "Click to try again" on the   *)
(* alert of an error: shouldResolve is set, the error of the step cleared *)
(* and the component updated.                                             *)
HandleRestart(i) ==
    /\ ~Resumable
    /\ MapHas(steps, i)
    /\ steps[i].due = "none"
    /\ steps[i].lastError # Undefined
    /\ steps' = [steps EXCEPT ![i].shouldResolve = TRUE,
                              ![i].lastError = Undefined,
                              ![i].due = "update",
                              ![i].retry = \E q \in 1..Len(requested) :
                                               requested[q].state = "rejected"]
    /\ UNCHANGED << client, applied, fetchResourcesPromise, running, requested,
                    devWorkspaceResources >>

(* handleTimeout(), from the TimeLimit rendered for the active step *)
HandleTimeout(i) ==
    /\ ~Resumable
    /\ MapHas(steps, i)
    /\ steps[i].due = "none"
    /\ steps[i].distance = 0
    /\ steps[i].lastError = Undefined
    /\ steps' = [steps EXCEPT ![i] = handleError(steps[i], "timeout")]
    /\ UNCHANGED << client, applied, fetchResourcesPromise, running, requested,
                    devWorkspaceResources >>

(* runStep() resumed at await fetchResourcesPromise (line 117), the promise *)
(* settled: false for a rejected one; else the resources of the props are  *)
(* read, and for a source URL without resources requestResources() is      *)
(* called, its promise stored in the static field and awaited; with        *)
(* resources, true.                                                        *)
RunStepResumed(r) ==
    /\ r \in 1..Len(running)
    /\ running[r].pc = "awaiting"
    /\ PromiseState(running[r].awaited) # "pending"
    /\ LET sourceUrl == steps[running[r].step].sourceUrl
       IN  IF PromiseState(running[r].awaited) = "rejected"
           THEN /\ running' = [running EXCEPT ![r].pc = "returned", ![r].result = "false"]
                /\ UNCHANGED << requested, fetchResourcesPromise >>
           ELSE IF sourceUrl \notin devWorkspaceResources
           THEN /\ requested' = Append(requested, [sourceUrl |-> sourceUrl, state |-> "pending"])
                /\ fetchResourcesPromise' = Len(requested) + 1
                /\ running' = [running EXCEPT ![r].pc = "fetching",
                                              ![r].resources = devWorkspaceResources,
                                              ![r].issued = Len(requested) + 1,
                                              ![r].awaited = Len(requested) + 1]
           ELSE /\ running' = [running EXCEPT ![r].pc = "returned", ![r].result = "true",
                                              ![r].resources = devWorkspaceResources]
                /\ UNCHANGED << requested, fetchResourcesPromise >>
    /\ UNCHANGED << client, applied, steps, devWorkspaceResources >>

(* runStep() resumed at the await of its own request (line 127): the       *)
(* rejection is thrown; else the resources read before the request are     *)
(* tested again (line 130), true with them and an error without.  What is  *)
(* thrown reaches handleError().                                           *)
RunStepFetched(r) ==
    /\ r \in 1..Len(running)
    /\ running[r].pc = "fetching"
    /\ PromiseState(running[r].awaited) # "pending"
    /\ LET i         == running[r].step
           sourceUrl == steps[i].sourceUrl
           e         == IF PromiseState(running[r].awaited) = "rejected"
                        THEN "rejected"
                        ELSE "Failed to fetch pre-built resources"
       IN  IF PromiseState(running[r].awaited) = "fulfilled" /\ sourceUrl \in running[r].resources
           THEN /\ running' = [running EXCEPT ![r].pc = "returned", ![r].result = "true"]
                /\ UNCHANGED steps
           ELSE /\ running' = [running EXCEPT ![r].pc = "thrown", ![r].result = e]
                /\ steps' = [steps EXCEPT ![i] = handleError(steps[i], e)]
    /\ UNCHANGED << client, applied, fetchResourcesPromise, requested, devWorkspaceResources >>

(* The promise of requestResources(sourceUrl) fulfilled: the store has the *)
(* resources of the source URL, in a new object of resources.              *)
RequestFulfilled(q) ==
    /\ ~Resumable
    /\ q \in 1..Len(requested)
    /\ requested[q].state = "pending"
    /\ requested' = [requested EXCEPT ![q].state = "fulfilled"]
    /\ devWorkspaceResources' = devWorkspaceResources \cup {requested[q].sourceUrl}
    /\ UNCHANGED << client, applied, fetchResourcesPromise, steps, running >>

(* ... rejected *)
RequestRejected(q) ==
    /\ ~Resumable
    /\ q \in 1..Len(requested)
    /\ requested[q].state = "pending"
    /\ requested' = [requested EXCEPT ![q].state = "rejected"]
    /\ UNCHANGED << client, applied, fetchResourcesPromise, steps, running,
                    devWorkspaceResources >>

(* Steps constructed, mounted and updated, their runStep() invocations, the *)
(* requests settling, timeouts and restarts.                               *)
NextFetch ==
    \/ \E i \in Instances, u \in SourceUrls, d \in {0, 1} : Constructor(i, u, d)
    \/ \E i \in Instances : ComponentDidMount(i)
    \/ \E i \in Instances : ComponentDidUpdate(i)
    \/ \E i \in Instances : HandleRestart(i)
    \/ \E i \in Instances : HandleTimeout(i)
    \/ \E r \in 1..MaxRuns : RunStepResumed(r)
    \/ \E r \in 1..MaxRuns : RunStepFetched(r)
    \/ \E q \in 1..MaxRuns : RequestFulfilled(q)
    \/ \E q \in 1..MaxRuns : RequestRejected(q)

SpecFetch == Init /\ [][NextFetch]_vars

-----------------------------------------------------------------------------
(* Properties *)

(* The last event, when it was a message on the channel *)
EventOn(channel) == out.op = "event" /\ out.channel = channel

(* C1: for each workspace id within one namespace, the prevStatus of every       *)
(* StatusUpdate handed to updateDevWorkspaceStatus but the first equals the      *)
(* status of the StatusUpdate handed out before it for that id.                  *)
C1_PrevStatusFollows ==
    EventOn(onModified) /\ isDevWorkspace(out.payload) =>
        LET updates == StatusCalls(out.calls)
        IN  \A n \in 1..Len(updates) :
                LET previous == IF n = 1 THEN out.before ELSE updates[n - 1].arg.status
                IN  previous # Undefined => updates[n].arg.prevStatus = previous

(* A workspace seen STARTING and then RUNNING, after a message for another workspace *)
C1_Witness ==
    /\ EventOn(onModified)
    /\ events = MaxEvents
    /\ out.before = STARTING
    /\ Len(out.calls) = 1
    /\ out.calls[1].arg.status = RUNNING
    /\ out.calls[1].arg.prevStatus = STARTING
    /\ \E k \in DOMAIN lastStatus : k[2] # getId(out.payload) /\ lastStatus[k] # Undefined

(* C2: the first StatusUpdate produced for a workspace id reports its own status *)
(* as prevStatus, never undefined.                                               *)
C2_FirstReportsItself ==
    EventOn(onModified) /\ isDevWorkspace(out.payload) /\ out.before = Undefined =>
        /\ StatusCalls(out.calls) # << >>
        /\ StatusCalls(out.calls)[1].arg.prevStatus = StatusCalls(out.calls)[1].arg.status

(* The payload is what the channel's listener accepts. *)
ValidFor(channel, payload) ==
    IF channel = onDeleted THEN IsString(payload) ELSE isDevWorkspace(payload)

(* The subscriber callback of each channel *)
CallbackOf(channel) ==
    CASE channel = onModified -> "updateDevWorkspaceStatus"
      [] channel = onAdded -> "updateAddedDevWorkspaces"
      [] channel = onDeleted -> "updateDeletedDevWorkspaces"

(* The subscribe() passes that resolved *)
Resolved == { i \in 1..Len(tasks) : tasks[i].pc = DonePc }

(* The channels of the SUBSCRIBE requests of a pass, in the order it sent them *)
SentChannels(i) == [k \in 1..Len(tasks[i].sent) |-> tasks[i].sent[k].channel]

C4_PassInOrder ==
    \A i \in 1..Len(tasks) :
        /\ Len(tasks[i].sent) <= 3
        /\ SentChannels(i) = SubSeq(<< "onModified", "onAdded", "onDeleted" >>, 1, Len(tasks[i].sent))
        /\ \A k \in 1..Len(tasks[i].sent) :
               /\ tasks[i].sent[k].request = "SUBSCRIBE"
               /\ tasks[i].sent[k].params.namespace = SubscriberNamespace(tasks[i].callbacks)
        /\ i \in Resolved => Len(tasks[i].sent) = 3
        /\ \A ch \in Channels :
               (\E k \in 1..Len(listeners[ch]) : listeners[ch][k].task = i) =>
                   /\ \E k \in 1..Len(tasks[i].sent) : tasks[i].sent[k].channel = ch
                   /\ tasks[i].pc > 2 * ((CHOOSE k \in 1..3 : SubscribeOrder[k] = ch) - 1) + 1

C5_MessageForwardedOnce ==
    EventOn(onModified) /\ isDevWorkspace(out.payload)
        /\ out.payload.message \notin {Undefined, ""} =>
            /\ Len(out.calls) = 1
            /\ out.calls[1].fn = "updateDevWorkspaceStatus"
            /\ out.calls[1].arg.message =
                   IF out.payload.message = out.logBefore THEN Undefined ELSE out.payload.message
            /\ MapGet(lastDevWorkspaceLog, getId(out.payload)) = out.payload.message

(* A message repeated for a workspace, and not forwarded again *)
C5_Witness ==
    /\ EventOn(onModified)
    /\ out.payload.message = "m1"
    /\ out.logBefore = "m1"
    /\ Len(out.calls) = 1
    /\ out.calls[1].arg.message = Undefined

(* C6: once a subscriber has replaced another, every event calls the callbacks *)
(* of the subscriber that is set, never those of the one replaced.             *)
C6_OnlyCurrentSubscriber ==
    out.op = "event" => \A k \in 1..Len(out.calls) : out.calls[k].subscriber = subscriber

(* C7: after onDidWebSocketFailing(c) the context is in failingWebSockets, and *)
(* after onDidWebSocketOpen(c) it no longer is.                                *)
C7_FailingUntilOpen ==
    /\ out.op = "onDidWebSocketFailing" =>
           \E k \in 1..Len(failingWebSockets) : failingWebSockets[k] = out.context
    /\ out.op = "onDidWebSocketOpen" =>
           \A k \in 1..Len(failingWebSockets) : failingWebSockets[k] # out.context

(* C8: a deleted event whose payload is no string calls no callback and shows *)
(* exactly one warning, with the key of the channel.                          *)
C8_DeletedNonString ==
    EventOn(onDeleted) /\ ~IsString(out.payload) =>
        /\ out.calls = << >>
        /\ out.alerts = << Alert("onDeleted-websocket-channel", "warning") >>

(* Such an event after the transport re-opened and two subscribe() passes resolved *)
C8_Witness ==
    /\ Cardinality(Resolved) = 2
    /\ EventOn(onDeleted)
    /\ out.payload = OtherPayload
    /\ out.calls = << >>
    /\ Len(out.alerts) = 1

(* C9: a modified event whose payload is no devworkspace calls no callback,   *)
(* leaves previousItems and lastDevWorkspaceLog as they are and shows the     *)
(* warning of the channel.                                                    *)
C9_ModifiedNotDevWorkspace ==
    [][ (out'.op = "event" /\ out'.channel = onModified /\ ~isDevWorkspace(out'.payload)) =>
            /\ out'.calls = << >>
            /\ out'.alerts # << >>
            /\ \A k \in 1..Len(out'.alerts) :
                   out'.alerts[k] = Alert("onModified-websocket-channel", "warning")
            /\ previousItems' = previousItems
            /\ lastDevWorkspaceLog' = lastDevWorkspaceLog ]_vars

(* Such an event while the caches hold a workspace *)
C9_Witness ==
    /\ EventOn(onModified)
    /\ out.payload = StringPayload("w1")
    /\ out.calls = << >>
    /\ out.alerts # << >>
    /\ MapHas(previousItems, "ns1")
    /\ MapHas(lastDevWorkspaceLog, "w1")

(* C10: without a subscriber no subscribe() pass gets to send a request or to   *)
(* register a listener, and an open shows the subscribe error alert instead of  *)
(* failing; with a subscriber an open starts a pass, and the passes that        *)
(* resolve have subscribed the three channels.                                  *)
C10_NoSubscriberNoSubscribe ==
    /\ subscriber = Undefined =>
           /\ tasks = << >>
           /\ \A ch \in Channels : listeners[ch] = << >>
    /\ out.op = "onDidWebSocketOpen" /\ subscriber = Undefined =>
           /\ out.alerts = << Alert("websocket-subscribe-error", "danger") >>
           /\ subscribeFailed
    /\ out.op = "onDidWebSocketOpen" /\ subscriber # Undefined =>
           /\ out.alerts = << >>
           /\ tasks # << >>
           /\ tasks[Len(tasks)].pc = 0
           /\ tasks[Len(tasks)].callbacks = subscriber
    /\ \A i \in Resolved :
           /\ SentChannels(i) = << "onModified", "onAdded", "onDeleted" >>
           /\ \A ch \in Channels : Len(listeners[ch]) = 1 /\ listeners[ch][1].channel = ch

(* After an open without subscriber was answered by the alert, a subscriber was set *)
(* and the pass of a later open resolved.                                           *)
C10_Witness ==
    /\ subscribeFailed
    /\ Resolved # {}
    /\ \A ch \in Channels : listeners[ch] # << >>

-----------------------------------------------------------------------------
(* The caches across all operations *)

(* C11: previousItems changes only when a valid onModified event is handled:    *)
(* onAdded and onDeleted events, malformed events, the transport's open, fail   *)
(* and close notifications, subscribeToNamespace and changeWorkspaceStatus      *)
(* leave it unchanged; and no operation removes an entry from it.               *)
C11_ItemsOnlyOnModified ==
    [][ /\ previousItems' # previousItems =>
               /\ out'.op = "event"
               /\ out'.channel = onModified
               /\ isDevWorkspace(out'.payload)
        /\ \A ns \in DOMAIN previousItems :
               /\ ns \in DOMAIN previousItems'
               /\ DOMAIN previousItems[ns] \subseteq DOMAIN previousItems'[ns] ]_vars

(* A workspace is stopped while the cache holds two workspaces of a namespace. *)
C11_Witness ==
    /\ out.op = "changeWorkspaceStatus"
    /\ ~out.started
    /\ MapHas(previousItems, "ns1")
    /\ DOMAIN previousItems["ns1"] = {"w1", "w2"}
    /\ getId(out.workspace) = "w1"

(* C12: changeWorkspaceStatus with started = false clears the last message      *)
(* recorded for the workspace it patched, so that the next valid onModified     *)
(* event for that id that carries a message is forwarded with that message,     *)
(* also when it equals the message forwarded before the stop; with started =    *)
(* true the entry stays as it was.                                              *)
C12_StopClearsLastMessage ==
    /\ out.op = "changeWorkspaceStatus" /\ ~out.started =>
           ~MapHas(lastDevWorkspaceLog, getId(out.workspace))
    /\ out.op = "changeWorkspaceStatus" /\ out.started =>
           MapGet(lastDevWorkspaceLog, getId(out.workspace)) = out.logBefore
    /\ /\ EventOn(onModified)
       /\ isDevWorkspace(out.payload)
       /\ out.afterStop
       /\ out.payload.message # Undefined
       /\ out.payload.message # ""
       => /\ StatusCalls(out.calls) # << >>
          /\ \A k \in 1..Len(StatusCalls(out.calls)) :
                 StatusCalls(out.calls)[k].arg.message = out.payload.message

(* The message forwarded before the stop arrives again after it, and is forwarded. *)
C12_Witness ==
    /\ EventOn(onModified)
    /\ isDevWorkspace(out.payload)
    /\ out.afterStop
    /\ out.cleared = "m1"
    /\ out.payload.message = "m1"
    /\ Len(out.calls) = 1
    /\ out.calls[1].arg.message = "m1"

-----------------------------------------------------------------------------
(* The listeners of the failure notifications *)

(* C13: removeWebSocketFailedListener removes every callback registered through *)
(* onWebSocketFailed, so that a later failing or open notification calls only   *)
(* the callbacks registered since, and empties failingWebSockets; it leaves the *)
(* transport, the subscriber, the channel listeners, previousItems and          *)
(* lastDevWorkspaceLog as they were.                                            *)
C13_RemoveClearsListeners ==
    /\ [](out.op = "removeWebSocketFailedListener" =>
              webSocketEventEmitter = << >> /\ failingWebSockets = << >>)
    /\ [](out.op = "onDidWebSocketFailing" \/ (out.op = "onDidWebSocketOpen" /\ out.wasFailing) =>
              out.calls = Emit(webSocketEventEmitter))
    /\ [](out.op = "onDidWebSocketOpen" /\ ~out.wasFailing => out.calls = << >>)
    /\ [][ out'.op = "removeWebSocketFailedListener" =>
               UNCHANGED << connectRequested, subscriber, tasks, listeners, previousItems,
                            lastDevWorkspaceLog >> ]_vars

(* Two callbacks and a failing context are removed from a client that has its *)
(* listeners registered and its caches filled.                                *)
C13_Witness ==
    /\ out.op = "removeWebSocketFailedListener"
    /\ Len(out.removed) = 2
    /\ out.wasFailing
    /\ subscriber # Undefined
    /\ listeners[onDeleted] # << >>
    /\ previousItems # EmptyMap
    /\ lastDevWorkspaceLog # EmptyMap

(* C14: the failingWebSockets getter returns a copy: what it returns has the   *)
(* items of the internal list at the time of the call, and a caller that       *)
(* writes to the returned array changes neither the internal list nor what a   *)
(* later read returns.                                                         *)
C14_GetterReturnsCopy ==
    /\ [](out.op = "failingWebSockets" => Items(snapshot) = failingWebSockets)
    /\ [][ out'.op = "callerPush" => failingWebSockets' = failingWebSockets ]_vars

(* The caller has pushed to the array it got; the internal list has its item only. *)
C14_Witness ==
    /\ out.op = "callerPush"
    /\ failingWebSockets = << "c1" >>
    /\ Items(snapshot) = << "c1", "x" >>

-----------------------------------------------------------------------------
(* The close notification *)

(* C15: a close event shows a warning alert if and only if its code is not     *)
(* 1011 and its reason is not empty, and otherwise shows none; it never        *)
(* changes failingWebSockets, the subscriber or the caches.                    *)
C15_CloseAlertOnReason ==
    /\ [](out.op = "onDidWebSocketClose" =>
              /\ out.alerts # << >> <=> (out.code # 1011 /\ out.reason # "")
              /\ out.alerts # << >> => out.alerts = << CloseAlert(out.code, out.reason) >>)
    /\ [][ out'.op = "onDidWebSocketClose" =>
               UNCHANGED << failingWebSockets, subscriber, previousItems,
                            lastDevWorkspaceLog >> ]_vars

(* A close with a reason is reported while a context is failing and the caches are filled. *)
C15_Witness ==
    /\ out.op = "onDidWebSocketClose"
    /\ out.code = 1006
    /\ out.reason = "r1"
    /\ Len(out.alerts) = 1
    /\ out.alerts[1].variant = "warning"
    /\ failingWebSockets # << >>
    /\ previousItems # EmptyMap
    /\ lastDevWorkspaceLog # EmptyMap

-----------------------------------------------------------------------------
(* The added and deleted events, and the order of the calls *)

(* C17: a valid onAdded event causes one call updateAddedDevWorkspaces([workspace]) *)
(* with that one workspace, a valid onDeleted event one call                        *)
(* updateDeletedDevWorkspaces([id]) with that one id, and neither causes a call of  *)
(* updateDevWorkspaceStatus.                                                        *)
C17_AddedDeletedSingletons ==
    /\ EventOn(onAdded) /\ isDevWorkspace(out.payload) =>
           /\ Len(out.calls) = 1
           /\ out.calls[1].fn = "updateAddedDevWorkspaces"
           /\ out.calls[1].arg = << out.payload >>
    /\ EventOn(onDeleted) /\ IsString(out.payload) =>
           /\ Len(out.calls) = 1
           /\ out.calls[1].fn = "updateDeletedDevWorkspaces"
           /\ out.calls[1].arg = << out.payload.id >>
    /\ EventOn(onAdded) \/ EventOn(onDeleted) => StatusCalls(out.calls) = << >>

(* A deleted id handed on after the transport re-opened and both passes resolved *)
C17_Witness ==
    /\ EventOn(onDeleted)
    /\ IsString(out.payload)
    /\ out.calls = << Call("S1", "updateDeletedDevWorkspaces", << "w1" >>) >>
    /\ Cardinality(Resolved) = 2

(* The call the listener of the channel makes for the payload *)
CallFor(channel, payload, call) ==
    /\ call.fn = CallbackOf(channel)
    /\ CASE channel = onModified ->
               /\ call.arg.workspaceId = getId(payload)
               /\ call.arg.status = StatusOf(payload)
         [] channel = onAdded -> call.arg = << payload >>
         [] channel = onDeleted -> call.arg = << payload.id >>

(* The valid events received on the channel, and the calls of its callback *)
ReceivedOn(channel) == SelectSeq(received, LAMBDA e : e.channel = channel)

InvokedFor(channel) == SelectSeq(invoked, LAMBDA c : c.fn = CallbackOf(channel))

(* C18: for each channel, the calls of the subscriber's callback are in the order *)
(* of the valid events the transport delivered on it: the k-th call is the one    *)
(* for the k-th event, none is moved, kept back or dropped.                       *)
C18_CallsInTransportOrder ==
    \A ch \in Channels :
        /\ Len(InvokedFor(ch)) = Len(ReceivedOn(ch))
        /\ \A k \in 1..Len(ReceivedOn(ch)) :
               CallFor(ch, ReceivedOn(ch)[k].payload, InvokedFor(ch)[k])

(* Two ids deleted, with a modified event between them: the calls are in that order. *)
C18_Witness ==
    /\ events = MaxEvents
    /\ Len(ReceivedOn(onDeleted)) = 2
    /\ ReceivedOn(onDeleted)[1].payload # ReceivedOn(onDeleted)[2].payload
    /\ Len(received) = 3
    /\ received[2].channel = onModified
    /\ Len(invoked) = 3
    /\ invoked[1].arg = << "w2" >>
    /\ invoked[3].arg = << "w1" >>

-----------------------------------------------------------------------------
(* The requests to the cluster *)

(* The workspace reports the phase FAILED. *)
IsFailed(w) == w.status.present /\ w.status.phase = FAILED

(* The text a failed workspace is reported with: its message, or the fallback *)
FailureText(w) ==
    IF w.status.message # Undefined /\ w.status.message # ""
    THEN w.status.message
    ELSE "Unknown error occured when trying to process the devworkspace"

(* C16: a workspace that reports the phase FAILED becomes a thrown error on the *)
(* requests only: changeWorkspaceStatus and getWorkspaceByName throw for it,    *)
(* with the status message when there is one and the fallback text otherwise,   *)
(* and never return it; on the subscription a valid onModified event with the   *)
(* phase FAILED throws nothing and is forwarded as a StatusUpdate with the       *)
(* status FAILED.                                                                *)
C16_FailedThrownOnRequests ==
    /\ out.op = "changeWorkspaceStatus" =>
           out.thrown = IF IsFailed(out.workspace) THEN FailureText(out.workspace) ELSE Undefined
    /\ getByName.pc = "thrown" /\ getByName.cause # "rejected" /\ IsFailed(getByName.workspace) =>
           /\ getByName.cause = "failed"
           /\ getByName.thrown = FailureText(getByName.workspace)
    /\ getByName.pc = "thrown" /\ getByName.cause = "failed" => IsFailed(getByName.workspace)
    /\ getByName.pc = "returned" => ~IsFailed(getByName.workspace)
    /\ EventOn(onModified) /\ isDevWorkspace(out.payload) /\ out.payload.phase = FAILED =>
           /\ out.thrown = Undefined
           /\ out.alerts = << >>
           /\ Len(out.calls) = 1
           /\ out.calls[1].fn = "updateDevWorkspaceStatus"
           /\ out.calls[1].arg.status = FAILED

(* A failed workspace was forwarded by the subscription, thrown with its message *)
(* by getWorkspaceByName and with the fallback text by changeWorkspaceStatus.    *)
C16_Witness ==
    /\ lastStatus[<< "ns1", "w1" >>] = FAILED
    /\ getByName.pc = "thrown"
    /\ getByName.thrown = "e1"
    /\ getByName.fetches > 1
    /\ out.op = "changeWorkspaceStatus"
    /\ out.thrown = "Unknown error occured when trying to process the devworkspace"

(* The workspace has the annotation for the next start, whatever its value. *)
Carries(w) == w.annotations.present /\ w.annotations.nextStart # Undefined

(* The workspace has the annotation for the next start with a value that is not empty. *)
CarriesValue(w) ==
    w.annotations.present /\ w.annotations.nextStart # Undefined /\ w.annotations.nextStart # ""

(* The patch update() sent, for a workspace that is taken to have the annotation *)
(* (given) and a workspace on the cluster that is taken to have it (onCluster). *)
PatchAsStated(given, onCluster) ==
    LET patch == updating.patch
        w == updating.workspace
    IN  IF given
        THEN /\ Len(patch) = 1
             /\ patch[1].op = "add"
             /\ patch[1].path = "/metadata/annotations"
             /\ patch[1].value = [nextStart |-> w.annotations.nextStart]
        ELSE /\ Len(patch) = IF onCluster THEN 2 ELSE 1
             /\ patch[1].op = "replace"
             /\ patch[1].path = "/spec"
             /\ patch[1].value = w.spec
             /\ Len(patch) = 2 =>
                    /\ patch[2].op = "remove"
                    /\ patch[2].path = "/metadata/annotations/che.eclipse.org~1next-start-cfg"

C20_TerminatesStoppingOnFailed ==
    /\ [](getByName.fetches <= 11)
    /\ [][ getByName.fetches >= 1 /\ getByName'.fetches = getByName.fetches + 1 =>
               \/ ~getByName.workspace.status.present
               \/ getByName.workspace.status.phase = Undefined
               \/ getByName.workspace.status.mainUrl = Undefined ]_vars
    /\ [](getByName.pc \in {"refetch", "delay"} => ~IsFailed(getByName.workspace))
    /\ (~GetByNameDone ~> GetByNameDone)

(* The workspace may be returned: it has a status with a phase that is not *)
(* FAILED, and a mainUrl when the phase is RUNNING.                        *)
Returnable(w) ==
    /\ w.status.present
    /\ w.status.phase # Undefined
    /\ w.status.phase # FAILED
    /\ w.status.phase = RUNNING => w.status.mainUrl # Undefined

(* C21: when getWorkspaceByName returns, the workspace has a status with a    *)
(* phase that is not FAILED, and a mainUrl if that phase is RUNNING; for any  *)
(* other workspace it ends with it throws: for the missing status, for        *)
(* RUNNING without mainUrl, or for the phase FAILED.                          *)
C21_ReturnsUsableWorkspace ==
    /\ getByName.pc = "returned" => Returnable(getByName.workspace)
    /\ getByName.pc = "thrown" /\ getByName.cause # "rejected" =>
           /\ ~Returnable(getByName.workspace)
           /\ getByName.thrown =
                  IF IsFailed(getByName.workspace) THEN FailureText(getByName.workspace)
                  ELSE IF ~getByName.workspace.status.present
                          \/ getByName.workspace.status.phase = Undefined
                  THEN "Could not retrieve devworkspace status information"
                  ELSE "Could not retrieve mainUrl for the running workspace"

(* A workspace still starting is returned after the last attempt, and a running *)
(* one without mainUrl would not have been.                                     *)
C21_Witness ==
    /\ getByName.pc = "returned"
    /\ getByName.caller = "caller"
    /\ getByName.fetches = 11
    /\ getByName.workspace.status.phase = STARTING
    /\ getByName.workspace.status.mainUrl = Undefined

(* normalizeDevfileV2 has returned *)
Normalized == applied.fn = "normalizeDevfileV2" /\ applied.pc = "returned"

(* The list under a key of a devfile, empty when the key is absent *)
ListOf(devfile, key) == IF HasOwn(devfile, key) THEN devfile[key] ELSE << >>

(* The object under a key, {} when the key is absent *)
ObjectOf(object, key) == IF HasOwn(object, key) THEN object[key] ELSE EmptyMap

(* C22: when the devfile given has no projects (the key absent, or an empty *)
(* list) and the resolver data has scm_info, the devfile returned has        *)
(* exactly one project, whose git origin remote is scm_info.clone_url and    *)
(* whose checkoutFrom.revision is scm_info.branch when a branch is given;    *)
(* the projects of a devfile that has some are returned unchanged.           *)
C22_DefaultProjectAdded ==
    Normalized =>
        LET given    == ListOf(applied.devfile, "projects")
            returned == ListOf(applied.result, "projects")
            data     == applied.data
        IN  /\ (Len(given) = 0 /\ HasOwn(data, "scm_info")) =>
                   /\ Len(returned) = 1
                   /\ returned[1].git.remotes.origin = data.scm_info.clone_url
                   /\ HasOwn(data.scm_info, "branch") =>
                          /\ HasOwn(returned[1].git, "checkoutFrom")
                          /\ returned[1].git.checkoutFrom.revision = data.scm_info.branch
            /\ Len(given) > 0 => returned = given

(* A component whose one key is a name *)
NameOnly(component) == DOMAIN component = {"name"} /\ component.name # ""

(* C23: the components of the devfile returned are the default components  *)
(* exactly when the devfile given has none (the key absent, or an empty    *)
(* list) and its own otherwise, and each of them that had a name and no    *)
(* other key has an empty volume object besides.                           *)
C23_DefaultComponentsAndVolumes ==
    Normalized =>
        LET given    == ListOf(applied.devfile, "components")
            used     == IF Len(given) = 0 THEN applied.defaultComponents ELSE given
            returned == ListOf(applied.result, "components")
        IN  /\ HasOwn(applied.result, "components")
            /\ Len(returned) = Len(used)
            /\ \A k \in 1..Len(used) :
                   IF NameOnly(used[k])
                   THEN /\ DOMAIN returned[k] = {"name", "volume"}
                        /\ returned[k].name = used[k].name
                        /\ returned[k].volume = EmptyMap
                   ELSE returned[k] = used[k]

(* An empty list of components replaced by a default component that is a *)
(* name alone, returned with its volume.                                 *)
C23_Witness ==
    /\ Normalized
    /\ HasOwn(applied.devfile, "components")
    /\ applied.devfile.components = << >>
    /\ applied.defaultComponents = << [name |-> "d1"] >>
    /\ Len(applied.result.components) = 1
    /\ applied.result.components[1].name = "d1"
    /\ applied.result.components[1].volume = EmptyMap

(* The lines of a YAML text *)
Lines(text) == { text[k] : k \in 1..Len(text) }

(* C24: the devfile returned has metadata.attributes['dw.metadata.annotations'] *)
(* ['che.eclipse.org/devfile-source'], whatever the value before: the scm      *)
(* record (repo, fileName, and revision only with a branch) when the data has  *)
(* both source and scm_info, else the url record of a location that is not     *)
(* empty, else the empty string.  The other attributes and annotations and the *)
(* name are those given, and generateName is set exactly for a devfile with    *)
(* neither name nor generateName.                                              *)
C24_DevfileSourceAnnotation ==
    Normalized =>
        LET data        == applied.data
            before      == ObjectOf(applied.devfile, "metadata")
            attrsBefore == ObjectOf(before, "attributes")
            annBefore   == ObjectOf(attrsBefore, "dw.metadata.annotations")
            after       == ObjectOf(applied.result, "metadata")
            attrsAfter  == ObjectOf(after, "attributes")
            annAfter    == ObjectOf(attrsAfter, "dw.metadata.annotations")
            named       == \E k \in {"name", "generateName"} :
                               HasOwn(before, k) /\ before[k] # ""
        IN  /\ HasOwn(annAfter, "che.eclipse.org/devfile-source")
            /\ LET source == annAfter["che.eclipse.org/devfile-source"]
               IN  IF HasOwn(data, "source") /\ HasOwn(data, "scm_info")
                   THEN Lines(source) =
                            {<< 0, "scm", "" >>,
                             << 1, "repo", data.scm_info.clone_url >>,
                             << 1, "fileName", data.source >>}
                            \cup (IF HasOwn(data.scm_info, "branch")
                                  THEN {<< 1, "revision", data.scm_info.branch >>}
                                  ELSE {})
                   ELSE IF applied.location # ""
                   THEN Lines(source) = {<< 0, "url", "" >>, << 1, "location", applied.location >>}
                   ELSE source = EmptyText
            /\ \A k \in DOMAIN attrsBefore \ {"dw.metadata.annotations"} :
                   HasOwn(attrsAfter, k) /\ attrsAfter[k] = attrsBefore[k]
            /\ \A k \in DOMAIN annBefore \ {"che.eclipse.org/devfile-source"} :
                   HasOwn(annAfter, k) /\ annAfter[k] = annBefore[k]
            /\ MapGet(after, "name") = MapGet(before, "name")
            /\ IF named
               THEN MapGet(after, "generateName") = MapGet(before, "generateName")
               ELSE HasOwn(after, "generateName")

(* An annotation of the source written over the one of a devfile that had it, *)
(* for data with a source and scm_info without a branch; the other annotation *)
(* and the other attribute are kept, and a generateName is set.               *)
C24_Witness ==
    /\ Normalized
    /\ HasOwn(applied.devfile, "metadata")
    /\ applied.devfile.metadata = [attributes |-> Annotated @@ OtherAttribute]
    /\ applied.data = [scm_info |-> [clone_url |-> CloneUrl], source |-> "devfile.yaml"]
    /\ applied.result.metadata.attributes["dw.metadata.annotations"]
           ["che.eclipse.org/devfile-source"] =
               << << 0, "scm", "" >>, << 1, "repo", CloneUrl >>, << 1, "fileName", "devfile.yaml" >> >>
    /\ applied.result.metadata.attributes["dw.metadata.annotations"]["che.eclipse.org/other"] = "kept"
    /\ applied.result.metadata.attributes["other.attribute"] = "kept"
    /\ HasOwn(applied.result.metadata, "generateName")

(* sortKeys has returned for every pair of the three keys *)
Sorted == applied.fn = "sortKeys" /\ applied.pc = "returned"

(* The order of the keys as stated *)
StatedOrder ==
    << "apiVersion", "schemaVersion", "metadata", "attributes", "projects", "components",
       "commands" >>

Listed(key) == \E k \in 1..Len(StatedOrder) : StatedOrder[k] = key

Position(key) == CHOOSE k \in 1..Len(StatedOrder) : StatedOrder[k] = key

(* C25: sortKeys(a, b) = -sortKeys(b, a); sortKeys is transitive; two keys of *)
(* sortOrder compare by their positions in it; a key of sortOrder sorts       *)
(* before a key that is not in it; two keys that are not in it compare equal. *)
C25_SortKeysConsistent ==
    Sorted =>
        LET key == applied.keys
            cmp == applied.result
        IN  /\ \A i, j \in 1..3 : cmp[i][j] = -cmp[j][i]
            /\ \A i, j, k \in 1..3 :
                   /\ (cmp[i][j] <= 0 /\ cmp[j][k] <= 0) => cmp[i][k] <= 0
                   /\ (cmp[i][j] < 0 /\ cmp[j][k] < 0) => cmp[i][k] < 0
                   /\ (cmp[i][j] = 0 /\ cmp[j][k] = 0) => cmp[i][k] = 0
            /\ \A i, j \in 1..3 :
                   /\ (Listed(key[i]) /\ Listed(key[j])) =>
                          cmp[i][j] = IF Position(key[i]) < Position(key[j]) THEN -1
                                      ELSE IF Position(key[i]) > Position(key[j]) THEN 1
                                      ELSE 0
                   /\ (Listed(key[i]) /\ ~Listed(key[j])) => cmp[i][j] = -1
                   /\ (~Listed(key[i]) /\ ~Listed(key[j])) => cmp[i][j] = 0

(* A listed key before an unlisted one, the unlisted one after another listed *)
(* key, and the two listed keys by their positions.                           *)
C25_Witness ==
    /\ Sorted
    /\ applied.keys = << "metadata", "name", "apiVersion" >>
    /\ applied.result[1][2] = -1
    /\ applied.result[2][3] = 1
    /\ applied.result[3][1] = -1

(* The requestResources() calls in flight *)
InFlight == { q \in 1..Len(requested) : requested[q].state = "pending" }

(* C26: a runStep() started by "Click to try again" after a request has    *)
(* rejected does not end, by false or by an error, without having called  *)
(* requestResources() again.                                              *)
C26_RestartFetchesAgain ==
    \A r \in 1..Len(running) :
        (running[r].retry /\ running[r].pc \in {"returned", "thrown"}) =>
            \/ running[r].issued # 0
            \/ running[r].result = "true"

(* C27: at most one requestResources() call is in flight at any time, and a *)
(* runStep() whose awaited promise is pending has called none.              *)
C27_OneRequestInFlight ==
    /\ Cardinality(InFlight) <= 1
    /\ \A r \in 1..Len(running) :
           (running[r].pc = "awaiting" /\ PromiseState(running[r].awaited) = "pending") =>
               running[r].issued = 0

====
